---- MODULE Spec2Model ----
(***************************************************************************)
(* A model of the BoardGameGeek pipeline's stages: the discovery engine    *)
(* (game_id_discovery.py) and the extraction worker (extract_bgg_data.py). *)
(* One action models one whole handler invocation; what the remote API,    *)
(* the state table and the clock answer is drawn by \E from small sets.    *)
(* Item ids are strings in the code and are compared only for equality;    *)
(* they are numbers here.  Timestamps are ISO strings of one fixed width,  *)
(* which order like the instants they denote; they are day numbers here.   *)
(***************************************************************************)
EXTENDS Integers, Sequences, FiniteSets, TLC

\* ------------------------------------------------------------- bounds
\* Item ids of the remote catalog, of the hot list and of the state table.
MaxId == 3
\* The largest window end a discovery run may store (caps the watermark).
MaxWatermark == 4
\* SCAN_RANGE_SIZE ranges over 0..MaxScanRange.
MaxScanRange == 2
\* SCAN_BATCH_SIZE ranges over 0..MaxBatchSize.
MaxBatchSize == 2
\* HOT_LIMIT, NEW_IDS_LIMIT and REFRESH_LIMIT range over 0..MaxLimit.
MaxLimit == 1
\* REFRESH_DAYS ranges over 0..MaxRefreshDays.
MaxRefreshDays == 1
\* last_updated of a state record ranges over 0..MaxTime.
MaxTime == 1
\* The clock reads MaxTime..MaxNow.
MaxNow == 2
\* The state table holds at most MaxRecords item records.
MaxRecords == 2
\* A worker event lists at most MaxBatch ids, each in 1..MaxWorkerId.
MaxBatch == 2
MaxWorkerId == 2
\* fetch_game_data on its own is called with max_retries in 0..MaxRetries.
MaxRetries == 3
\* A bronze file given to the cleaner holds at most MaxCleanBatch raw records.
MaxCleanBatch == 2
\* At most MaxTemp temp objects exist in silver at a time.
MaxTemp == 1
\* The first of today's bronze files holds at most MaxBronzeGames raw games.
MaxBronzeGames == 2
\* The data-quality queries of the handler answer for tables of 0..MaxRows rows.
MaxRows == 1
\* In one run at most MaxOffenders sub-checks of a category count an offender.
MaxOffenders == 1
\* At most MaxChecks data-quality runs get a check_id.
MaxChecks == 2
\* check_completeness on its own sees tables of 0..MaxTotal rows.
MaxTotal == 20

VARIABLES
    watermark,    \* the __STATE__/LAST_SCANNED_ID record of the state table
    itemState,    \* the item records of the state table
    now,          \* datetime.utcnow(), in days
    descriptors,  \* blob storage under game_ids/: timestamp -> descriptor
    run,          \* the locals of the running discovery invocation
    bronze,       \* blob storage under bgg/raw_games/: key -> saved games_data
    ext,          \* the locals and the response of the running worker invocation
    fetch,        \* one call of fetch_game_data: its arguments and what it did
    vc,           \* calls of validate_and_clean_game_data on one raw record
    cl,           \* the locals of the running cleaner invocation
    silver,       \* blob storage of the silver bucket: key -> object
    tr,           \* the inputs and the response of the last transformer invocation
    gold,         \* blob storage of the gold bucket: key -> rows
    cc,           \* one call of check_completeness: the query's answer, the result
    dq,           \* the locals of the running data-quality invocation
    dqTable,      \* the DQ metrics table: check_id -> stored results
    alerts,       \* the messages published to the alert topic
    dag           \* the orchestrator's run: the task reached, the XCom value

vars == <<watermark, itemState, now, descriptors, run, bronze, ext, fetch,
          vc, cl, silver, tr, gold, cc, dq, dqTable, alerts, dag>>

\* What the discovery engine leaves alone, and what the worker leaves alone.
workerVars == <<bronze, ext, fetch>>
discoveryVars == <<watermark, descriptors, run>>
\* What discovery and the worker leave alone: the cleaner, the transformer, the
\* data-quality engine and the orchestrator; and what each of the first three
\* leaves alone.
warehouseVars == <<vc, cl, silver, tr, gold, cc, dq, dqTable, alerts, dag>>
cleanerVars == <<vc, cl, silver>>
transformVars == <<tr, gold>>
qualityVars == <<cc, dq, dqTable, alerts>>

IDs == 1..MaxId

Min(a, b) == IF a < b THEN a ELSE b

\* The sequences that list every element of S once (list(set) in Python: the
\* iteration order of a set of strings is arbitrary).
Perms(S) ==
    {f \in [1..Cardinality(S) -> S] : \A i, j \in DOMAIN f : i # j => f[i] # f[j]}

\* The subsets of S with exactly k elements.
SubsetsOfSize(S, k) == {T \in SUBSET S : Cardinality(T) = k}

Range(f) == {f[i] : i \in DOMAIN f}

\* ------------------------------------------------------ the remote API
\* The ids that exist as boardgames in the remote catalog: the thing endpoint
\* returns one item element per requested id that exists.
Catalog == {i \in IDs : i % 2 = 0} \cup {MaxId}

RemoteItems(ids) == ids \cap Catalog

\* ------------------------------------------------------ state table
StateRecords == [game_id : IDs, last_updated : 0..MaxTime,
                 processing_status : {"COMPLETED", "FAILED"}]

\* get_last_scanned_id: the stored value, 1 when the record is absent, and 1
\* when get_item raises (the exception is swallowed).
get_last_scanned_id(readOk) ==
    IF readOk /\ watermark.present THEN watermark.value ELSE 1

\* set_last_scanned_id: put_item of the sentinel record.
set_last_scanned_id(last_scanned_id) == [present |-> TRUE, value |-> last_scanned_id]

\* ------------------------------------------------------ scan_id_range
\* range(start_id, end_id, batch_size) for batch_size > 0.
BatchStarts(start_id, end_id, batch_size) ==
    {b \in start_id..(end_id - 1) : (b - start_id) % batch_size = 0}

\* One sub-batch: range(batch_start, min(batch_start + batch_size, end_id)).
BatchIds(batch_start, end_id, batch_size) ==
    batch_start..(Min(batch_start + batch_size, end_id) - 1)

BatchOutcomes == {"items", "non200", "raise"}

\* The valid_games set of scan_id_range: the items of the sub-batches whose
\* request returned 200; a non-200 answer or an exception adds nothing.
scan_id_range(start_id, end_id, batch_size, outcome) ==
    UNION {IF outcome[b] = "items"
           THEN RemoteItems(BatchIds(b, end_id, batch_size))
           ELSE {} : b \in BatchStarts(start_id, end_id, batch_size)}

\* ------------------------------------------------- the refresh strategies
\* KeyConditionExpression 'processing_status = COMPLETED AND last_updated < cutoff'.
StaleRecords(cutoff_date) ==
    {r \in itemState : r.processing_status = "COMPLETED" /\ r.last_updated < cutoff_date}

\* The Items a StatusIndex query with Limit=limit can answer: the index is read
\* in ascending last_updated order and stops after limit records; the order of
\* records with equal last_updated is not defined by the index.
RefreshPages(cutoff_date, limit) ==
    LET Q == StaleRecords(cutoff_date) IN
    {P \in SubsetsOfSize(Q, Min(limit, Cardinality(Q))) :
        \A p \in P, q \in Q \ P : p.last_updated <= q.last_updated}

\* What get_games_needing_refresh can return: the ids of a page, or set() when
\* the query raises (a Limit below 1 is rejected by the client, so it raises).
get_games_needing_refresh(cutoff_date, limit) ==
    {{}} \cup (IF limit >= 1
               THEN {{r.game_id : r \in P} : P \in RefreshPages(cutoff_date, limit)}
               ELSE {})

\* KeyConditionExpression 'processing_status = COMPLETED AND last_updated >= cutoff',
\* all pages.
RecentRecords(cutoff_date) ==
    {r \in itemState : r.processing_status = "COMPLETED" /\ r.last_updated >= cutoff_date}

\* What get_recently_processed_games can return: the ids of all pages, or
\* set() when a query raises.
get_recently_processed_games(cutoff_date) ==
    {{r.game_id : r \in RecentRecords(cutoff_date)}, {}}

\* ------------------------------------------------------ lambda_handler
\* hot_games = list(get_hot_games(...))[:hot_limit]
HotCut(hot, hot_limit) == SubsetsOfSize(hot, Min(hot_limit, Cardinality(hot)))

\* A mutant of NewCandidates: the recently completed games are not taken out.
NewCandidatesKeepRecent(hot_games, new_games, recent_games, games_to_refresh) ==
    (hot_games \cup new_games) \ games_to_refresh

\* discovered_new_games - recent_games - games_to_refresh
NewCandidates(hot_games, new_games, recent_games, games_to_refresh) ==
    ((hot_games \cup new_games) \ recent_games) \ games_to_refresh

\* A mutant of CapNew: the cap is applied only from two ids over the limit on.
CapNewOffByOne(d, new_ids_limit) ==
    IF Cardinality(d) > new_ids_limit + 1 THEN SubsetsOfSize(d, new_ids_limit) ELSE {d}

\* if len(d) > new_ids_limit: d = set(list(d)[:new_ids_limit])
CapNew(d, new_ids_limit) ==
    IF Cardinality(d) > new_ids_limit THEN SubsetsOfSize(d, new_ids_limit) ELSE {d}

\* The body of the descriptor written to game_ids/discovered_<timestamp>.json
\* (of its fields, the ones a later stage or a claim reads).
Descriptor(timestamp, discovered_games) ==
    [timestamp |-> timestamp,
     game_ids |-> discovered_games,
     total_count |-> Len(discovered_games)]

\* The environment variables lambda_handler reads.
Limits == [scan_range_size : 0..MaxScanRange, refresh_days : 0..MaxRefreshDays,
           refresh_limit : 0..MaxLimit, hot_limit : 0..MaxLimit,
           new_ids_limit : 0..MaxLimit]

\* No invocation is running: there are no locals.
NoRun == [status |-> "none", limits |-> CHOOSE l \in Limits : TRUE, hot_games |-> {},
          last_scanned_id |-> 1, timestamp |-> 0, new_games |-> {}, cutoff_date |-> 0,
          recent_games |-> {}, games_to_refresh |-> {}, discovered_new_games |-> {},
          discovered_games |-> <<>>]

\* The invocation starts: configuration, then strategy 1 (get_hot_games returns
\* set() on any error, which hot = {} covers).
DiscoveryStart ==
    /\ run.status = "none"
    /\ \E limits \in Limits, hot \in SUBSET IDs :
       \E hot_games \in HotCut(hot, limits.hot_limit) :
          run' = [NoRun EXCEPT !.status = "hot", !.limits = limits,
                               !.hot_games = hot_games]
    /\ UNCHANGED <<watermark, itemState, now, descriptors>>
    /\ UNCHANGED workerVars
    /\ UNCHANGED warehouseVars

\* get_bearer_token raises (no secret name, no secret): nothing was done yet.
DiscoveryConfigError ==
    /\ run.status = "none"
    /\ run' = [NoRun EXCEPT !.status = "raised"]
    /\ UNCHANGED <<watermark, itemState, now, descriptors>>
    /\ UNCHANGED workerVars
    /\ UNCHANGED warehouseVars

\* Strategy 2: get_last_scanned_id, scan_id_range, set_last_scanned_id.
DiscoveryScan ==
    /\ run.status = "hot"
    /\ \E readOk \in BOOLEAN, batch_size \in 1..MaxBatchSize :
       LET last_scanned_id == get_last_scanned_id(readOk)
           end_id == last_scanned_id + run.limits.scan_range_size
       IN  /\ end_id <= MaxWatermark
           /\ \E outcome \in [BatchStarts(last_scanned_id, end_id, batch_size)
                                -> BatchOutcomes] :
                 /\ watermark' = set_last_scanned_id(end_id)
                 /\ run' = [run EXCEPT
                       !.status = "scanned",
                       !.last_scanned_id = last_scanned_id,
                       !.new_games = scan_id_range(last_scanned_id, end_id,
                                                   batch_size, outcome)]
    /\ UNCHANGED <<itemState, now, descriptors>>
    /\ UNCHANGED workerVars
    /\ UNCHANGED warehouseVars

\* Strategy 2 raises: SCAN_BATCH_SIZE = 0 (range() rejects a zero step) or the
\* put_item of set_last_scanned_id fails.  Nothing is stored.
DiscoveryScanRaises ==
    /\ run.status = "hot"
    /\ \E readOk \in BOOLEAN :
          run' = [run EXCEPT !.status = "raised",
                             !.last_scanned_id = get_last_scanned_id(readOk)]
    /\ UNCHANGED <<watermark, itemState, now, descriptors>>
    /\ UNCHANGED workerVars
    /\ UNCHANGED warehouseVars

\* Strategy 3 and the two subtractions.
DiscoveryRefresh ==
    /\ run.status = "scanned"
    /\ LET cutoff_date == now - run.limits.refresh_days IN
       \E recent_games \in get_recently_processed_games(cutoff_date),
          games_to_refresh \in get_games_needing_refresh(cutoff_date,
                                                         run.limits.refresh_limit) :
          run' = [run EXCEPT
                !.status = "queried",
                !.cutoff_date = cutoff_date,
                !.recent_games = recent_games,
                !.games_to_refresh = games_to_refresh,
                !.discovered_new_games =
                    NewCandidates(run.hot_games, run.new_games, recent_games,
                                  games_to_refresh)]
    /\ UNCHANGED <<watermark, itemState, now, descriptors>>
    /\ UNCHANGED workerVars
    /\ UNCHANGED warehouseVars

\* The cap, the final list and the put_object of the descriptor; returns 200.
DiscoveryWrite ==
    /\ run.status = "queried"
    /\ \E discovered_new_games \in CapNew(run.discovered_new_games,
                                          run.limits.new_ids_limit) :
       \E discovered_games \in Perms(discovered_new_games \cup run.games_to_refresh) :
          /\ descriptors' =
                [k \in DOMAIN descriptors \cup {now} |->
                    IF k = now THEN Descriptor(now, discovered_games)
                    ELSE descriptors[k]]
          /\ run' = [run EXCEPT !.status = "done",
                                !.timestamp = now,
                                !.discovered_new_games = discovered_new_games,
                                !.discovered_games = discovered_games]
    /\ UNCHANGED <<watermark, itemState, now>>
    /\ UNCHANGED workerVars
    /\ UNCHANGED warehouseVars

\* put_object raises: the exception leaves the handler, the watermark stays
\* advanced and no descriptor is written.
DiscoveryWriteRaises ==
    /\ run.status = "queried"
    /\ run' = [run EXCEPT !.status = "raised"]
    /\ UNCHANGED <<watermark, itemState, now, descriptors>>
    /\ UNCHANGED workerVars
    /\ UNCHANGED warehouseVars

\* The invocation is over and its locals are gone.
DiscoveryReturn ==
    /\ run.status \in {"done", "raised"}
    /\ run' = NoRun
    /\ UNCHANGED <<watermark, itemState, now, descriptors>>
    /\ UNCHANGED workerVars
    /\ UNCHANGED warehouseVars

\* =================================================== extraction worker
\* ------------------------------------------------------ fetch_game_data
\* What one remote call and the parse of its answer can do:
\*   ok                 2xx and an XML document whose item parses
\*   socket_error       requests.get raises socket.gaierror or socket.timeout
\*   request_exception  a requests.RequestException: raise_for_status on a
\*                      non-2xx answer, ConnectionError, Timeout
\*   other_exception    any other exception of the call
\*   malformed_xml      2xx, ET.fromstring raises ParseError
\*   no_item            2xx, the document has no item element
\*   parse_exception    2xx, another exception while the item is parsed
Outcomes == {"ok", "socket_error", "request_exception", "other_exception",
             "malformed_xml", "no_item", "parse_exception"}

\* The answers that got a 2xx status: time.sleep(2) runs before the parse.
Answered == {"ok", "malformed_xml", "no_item", "parse_exception"}

RECURSIVE Pow2(_)
Pow2(n) == IF n <= 0 THEN 1 ELSE 2 * Pow2(n - 1)

\* A mutant of FetchAttempt: a requests-level error is retried like a socket error.
FetchAttemptRetriesHttp(outcome, attempt, max_retries) ==
    IF outcome = "ok"
    THEN [returns |-> TRUE, data |-> TRUE, sleeps |-> <<2>>]
    ELSE IF outcome \in Answered
    THEN [returns |-> TRUE, data |-> FALSE, sleeps |-> <<2>>]
    ELSE IF outcome \in {"socket_error", "request_exception"} /\ attempt < max_retries - 1
    THEN [returns |-> FALSE, data |-> FALSE, sleeps |-> <<Pow2(attempt)>>]
    ELSE [returns |-> TRUE, data |-> FALSE, sleeps |-> <<>>]

\* One pass of the body of `for attempt in range(max_retries)`: whether it
\* returns, whether it returns game data (else None), and its time.sleep calls.
FetchAttempt(outcome, attempt, max_retries) ==
    IF outcome = "ok"
    THEN [returns |-> TRUE, data |-> TRUE, sleeps |-> <<2>>]
    ELSE IF outcome \in Answered
    THEN [returns |-> TRUE, data |-> FALSE, sleeps |-> <<2>>]
    ELSE IF outcome = "socket_error" /\ attempt < max_retries - 1
    THEN [returns |-> FALSE, data |-> FALSE, sleeps |-> <<Pow2(attempt)>>]
    ELSE [returns |-> TRUE, data |-> FALSE, sleeps |-> <<>>]

\* fetch_game_data from pass `attempt` on, the remote answering script[1],
\* script[2], ... to the successive calls: whether game data is returned, the
\* remote calls made and the sleeps.  Falling out of the loop returns None.
RECURSIVE FetchFrom(_, _, _)
FetchFrom(script, attempt, max_retries) ==
    IF attempt >= max_retries
    THEN [data |-> FALSE, calls |-> <<>>, sleeps |-> <<>>]
    ELSE LET a == FetchAttempt(script[attempt + 1], attempt, max_retries) IN
         IF a.returns
         THEN [data |-> a.data, calls |-> <<script[attempt + 1]>>, sleeps |-> a.sleeps]
         ELSE LET rest == FetchFrom(script, attempt + 1, max_retries) IN
              [data |-> rest.data,
               calls |-> <<script[attempt + 1]>> \o rest.calls,
               sleeps |-> a.sleeps \o rest.sleeps]

fetch_game_data(script, max_retries) == FetchFrom(script, 0, max_retries)

\* ------------------------------------------------------ lambda_handler
\* lambda_handler calls fetch_game_data(game_id, bearer_token, max_retries=1).
WorkerMaxRetries == 1

\* The game_data parse_game_xml builds (of its fields, the ones read here).
GameData(game_id, extraction_date) ==
    [game_id |-> game_id, extraction_date |-> extraction_date]

\* event.get('batch_name', f"batch_{timestamp}")
NoBatchName == "<absent>"
BatchName(event_batch_name, timestamp) ==
    IF event_batch_name = NoBatchName
    THEN [name |-> "batch_", ts |-> timestamp]
    ELSE [name |-> event_batch_name, ts |-> 0]

\* bgg/raw_games/extraction_date=<date>/<batch_name>.json
S3Key(extraction_date, batch_name) ==
    [extraction_date |-> extraction_date, batch_name |-> batch_name]

\* A mutant of ProcessBatch: the loop stops at the first item that fails.
RECURSIVE ProcessBatchStopsAtFailure(_, _, _, _)
ProcessBatchStopsAtFailure(game_ids, scripts, i, extraction_date) ==
    IF i > Len(game_ids)
    THEN [games_data |-> <<>>, failed_ids |-> <<>>, calls |-> <<>>]
    ELSE LET f == fetch_game_data(scripts[i], WorkerMaxRetries) IN
         IF f.data
         THEN LET rest == ProcessBatchStopsAtFailure(game_ids, scripts, i + 1,
                                                     extraction_date) IN
              [games_data |-> <<GameData(game_ids[i], extraction_date)>>
                              \o rest.games_data,
               failed_ids |-> rest.failed_ids,
               calls |-> <<f.calls>> \o rest.calls]
         ELSE [games_data |-> <<>>, failed_ids |-> <<game_ids[i]>>,
               calls |-> <<f.calls>>]

\* The loop `for game_id in game_ids` from item i on: games_data, failed_ids
\* and, per item, the remote calls made for it.
RECURSIVE ProcessBatch(_, _, _, _)
ProcessBatch(game_ids, scripts, i, extraction_date) ==
    IF i > Len(game_ids)
    THEN [games_data |-> <<>>, failed_ids |-> <<>>, calls |-> <<>>]
    ELSE LET f == fetch_game_data(scripts[i], WorkerMaxRetries)
             rest == ProcessBatch(game_ids, scripts, i + 1, extraction_date)
         IN  [games_data |->
                  (IF f.data THEN <<GameData(game_ids[i], extraction_date)>> ELSE <<>>)
                  \o rest.games_data,
              failed_ids |->
                  (IF f.data THEN <<>> ELSE <<game_ids[i]>>) \o rest.failed_ids,
              calls |-> <<f.calls>> \o rest.calls]

\* The event's game_ids: any list of at most MaxBatch ids.
WorkerIds == 1..MaxWorkerId
Batches == UNION {[1..n -> WorkerIds] : n \in 1..MaxBatch}
EventBatchNames == {NoBatchName, "batch_a"}

\* No worker invocation is running.
NoExt == [status |-> "none", statusCode |-> 0, game_ids |-> <<>>,
          s3_key |-> S3Key(0, BatchName(NoBatchName, 0)),
          calls |-> <<>>, games_data |-> <<>>, failed_ids |-> <<>>,
          games_processed |-> 0, games_failed |-> 0]

\* One invocation with a non-empty game_ids that returns 200: the loop, the
\* put_object of games_data when it is not empty, the response.
ExtractRun ==
    /\ ext.status = "none"
    /\ \E game_ids \in Batches, event_batch_name \in EventBatchNames :
       \E scripts \in [1..Len(game_ids) -> [1..WorkerMaxRetries -> Outcomes]] :
          LET batch_name == BatchName(event_batch_name, now)
              extraction_date == now
              r == ProcessBatch(game_ids, scripts, 1, extraction_date)
              s3_key == S3Key(extraction_date, batch_name)
          IN  /\ bronze' =
                    IF r.games_data # <<>>
                    THEN [k \in DOMAIN bronze \cup {s3_key} |->
                             IF k = s3_key THEN r.games_data ELSE bronze[k]]
                    ELSE bronze
              /\ ext' = [status |-> "done", statusCode |-> 200,
                         game_ids |-> game_ids, s3_key |-> s3_key,
                         calls |-> r.calls, games_data |-> r.games_data,
                         failed_ids |-> r.failed_ids,
                         games_processed |-> Len(r.games_data),
                         games_failed |-> Len(r.failed_ids)]
    /\ UNCHANGED <<itemState, now, fetch>>
    /\ UNCHANGED discoveryVars
    /\ UNCHANGED warehouseVars

\* The event has no game_ids (or an empty list): 400.
ExtractNoGameIds ==
    /\ ext.status = "none"
    /\ ext' = [NoExt EXCEPT !.status = "done", !.statusCode = 400]
    /\ UNCHANGED <<itemState, now, bronze, fetch>>
    /\ UNCHANGED discoveryVars
    /\ UNCHANGED warehouseVars

\* An exception reaches the handler's own except clause (a missing environment
\* variable, the secret, the put_object of games_data): 500, nothing is saved.
ExtractError ==
    /\ ext.status = "none"
    /\ \E game_ids \in Batches \cup {<<>>} :
          ext' = [NoExt EXCEPT !.status = "done", !.statusCode = 500,
                               !.game_ids = game_ids]
    /\ UNCHANGED <<itemState, now, bronze, fetch>>
    /\ UNCHANGED discoveryVars
    /\ UNCHANGED warehouseVars

\* The invocation is over and its locals are gone.
ExtractReturn ==
    /\ ext.status = "done"
    /\ ext' = NoExt
    /\ UNCHANGED <<itemState, now, bronze, fetch>>
    /\ UNCHANGED discoveryVars
    /\ UNCHANGED warehouseVars

\* ------------------------------------------- fetch_game_data on its own
\* The arguments of a call of fetch_game_data and the remote's answers.
Scripts == [1..MaxRetries -> Outcomes]

NoFetch == [status |-> "none", game_id |-> 1, max_retries |-> 0,
            script |-> CHOOSE s \in Scripts : TRUE,
            data |-> FALSE, calls |-> <<>>, sleeps |-> <<>>]

\* fetch_game_data runs and returns.
FetchReturn ==
    /\ fetch.status = "called"
    /\ LET f == fetch_game_data(fetch.script, fetch.max_retries) IN
       fetch' = [fetch EXCEPT !.status = "returned", !.data = f.data,
                              !.calls = f.calls, !.sleeps = f.sleeps]
    /\ UNCHANGED <<itemState, now, bronze, ext>>
    /\ UNCHANGED discoveryVars
    /\ UNCHANGED warehouseVars

\* =================================================== bronze-to-silver cleaner
\* ----------------------------------------- validate_and_clean_game_data
\* A value of a raw record, or a cell of a DataFrame.
NoneValue == [kind |-> "none", v |-> 0]    \* None, NaN
NA == [kind |-> "na", v |-> 0]             \* pd.NA of a nullable column
Num(n) == [kind |-> "int", v |-> n]
Fraction == [kind |-> "float", v |-> 0]    \* a number with a fraction, as 2.5
Text == [kind |-> "str", v |-> 0]          \* a string that is not a number
Absent == [kind |-> "absent", v |-> 0]     \* the dict has no such key

\* game.get(key) and game.get(key, default)
Get(game, key) == IF game[key] = Absent THEN NoneValue ELSE game[key]
GetDefault(game, key, default) == IF game[key] = Absent THEN default ELSE game[key]

\* a or b
Falsy(a) == a \in {NoneValue, Num(0)}
Or(a, b) == IF Falsy(a) THEN b ELSE a

\* f"bggg_{source_id or 0}": the prefix and the formatted id.
SurrogateKey(source_id) == <<"bggg_", Or(source_id, Num(0))>>

\* The dict the loop body appends for one raw game (of the columns of
\* DIM_GAME_SCHEMA, the ones a later stage or a claim reads; the others are
\* copied and converted in the same three ways).
cleaned_game(game, utcnow) ==
    LET source_id == Or(Get(game, "bgg_game_id"), Get(game, "game_id")) IN
    [game_id |-> SurrogateKey(source_id),
     bgg_game_id |-> source_id,
     year |-> Get(game, "year_published"),
     min_players |-> Get(game, "min_players"),
     max_players |-> Get(game, "max_players"),
     extraction_date |-> GetDefault(game, "extraction_date", Num(utcnow))]

\* pd.to_numeric(df[col], errors='coerce').astype('Int64'): what is not a number
\* becomes NA; a number with a fraction anywhere in the column makes astype
\* raise, the except clause logs it and the column stays as it was.
CoerceInt(df, col) ==
    IF \E i \in DOMAIN df : df[i][col] = Fraction
    THEN df
    ELSE [i \in DOMAIN df |->
             [df[i] EXCEPT ![col] = IF @.kind = "int" THEN @ ELSE NA]]

\* The loop over DIM_GAME_SCHEMA, for the int32 and int64 columns kept here
\* (the string columns hold strings already).
ApplySchema(df) ==
    CoerceInt(CoerceInt(CoerceInt(CoerceInt(df, "bgg_game_id"), "year"),
                        "min_players"), "max_players")

\* df[col] = df[col].where(df[col] != 0, 1): where() replaces the cells whose
\* condition is False, and takes an NA condition (NA != 0) as False.
NormalizeZero(df, col) ==
    [i \in DOMAIN df |->
        [df[i] EXCEPT ![col] = IF @ \in {Num(0), NA} THEN Num(1) ELSE @]]

\* isinstance(game, dict): an element of the list that is no dict is a bare value.
IsDict(game) == "kind" \notin DOMAIN game

\* A link whose name is None: m.get('name', '') answers None.
NoName == "<none>"

\* The try body of the loop raises for the record: game.get on a value that is
\* no dict, or .lower() on the None name of a mechanic.
Throws(game) ==
    \/ ~IsDict(game)
    \/ /\ "mechanics" \in DOMAIN game
       /\ \E k \in DOMAIN game.mechanics :
             game.mechanics[k].kind = "dict" /\ game.mechanics[k].name = NoName

\* The except clause of the loop raises in its turn: its log line calls
\* game.get('bgg_game_id') on a record that is no dict, and the exception
\* leaves the function.
LoopRaises(raw_games) == \E i \in DOMAIN raw_games : ~IsDict(raw_games[i])

\* The DataFrame returned when the loop does not raise: a record whose try
\* body raised was skipped by `continue`.
validate_and_clean_game_data(raw_games, utcnow) ==
    LET kept == SelectSeq(raw_games, LAMBDA game : ~Throws(game))
        cleaned_games == [i \in DOMAIN kept |-> cleaned_game(kept[i], utcnow)]
    IN  NormalizeZero(NormalizeZero(ApplySchema(cleaned_games), "min_players"),
                      "max_players")

\* The values a raw record can carry for a player count.
PlayerValues == {NoneValue, Num(0), Num(2), Num(0 - 1), Text, Fraction}

\* The raw records cleaned on their own or next to another record.
CleanRawGames ==
    [bgg_game_id : {NoneValue, Num(1)}, game_id : {NoneValue, Num(2)},
     year_published : {NoneValue, Num(2000)},
     min_players : PlayerValues, max_players : {NoneValue, Num(0), Num(4)},
     extraction_date : {Absent, Num(MaxTime)}, categories : {<<>>}]

\* The records that share the batch with it: they differ in min_players.
PeerRawGames ==
    [bgg_game_id : {Num(3)}, game_id : {Num(3)}, year_published : {Num(2000)},
     min_players : PlayerValues, max_players : {Num(4)},
     extraction_date : {Num(MaxTime)}, categories : {<<>>}]

\* The batches that hold the record R: alone, before or after another record.
ProbeBatches(R) ==
    {[raw_games |-> <<R>>, position |-> 1]}
    \cup {[raw_games |-> <<R, o>>, position |-> 1] : o \in PeerRawGames}
    \cup {[raw_games |-> <<o, R>>, position |-> 2] : o \in PeerRawGames}

NoVc == [status |-> "none", probe |-> CHOOSE R \in CleanRawGames : TRUE,
         raw_games |-> <<>>, df |-> <<>>, rows |-> {}]

\* validate_and_clean_game_data runs on a batch that holds the record vc.probe;
\* vc.rows collects the cleaned rows this record got over the calls.
ValidateAndClean ==
    /\ vc.status # "none"
    /\ \E batch \in ProbeBatches(vc.probe) :
          LET df == validate_and_clean_game_data(batch.raw_games, now) IN
          vc' = [vc EXCEPT !.status = "cleaned", !.raw_games = batch.raw_games,
                           !.df = df, !.rows = @ \cup {df[batch.position]}]
    /\ UNCHANGED <<watermark, itemState, now, descriptors, run, bronze, ext, fetch, dag>>
    /\ UNCHANGED <<cl, silver>>
    /\ UNCHANGED transformVars
    /\ UNCHANGED qualityVars

\* The elements a bronze list can hold next to well-formed records: a record
\* with a value that is not a number, a record with a nameless mechanic, and
\* a string in place of a record.
BatchRawGames ==
    [bgg_game_id : {Num(1), Num(2)}, game_id : {NoneValue},
     year_published : {Num(2000), Text, Fraction},
     min_players : {Num(2)}, max_players : {Num(4)},
     extraction_date : {Num(MaxTime)}, categories : {<<>>},
     mechanics : {<<>>, <<[kind |-> "dict", id |-> 1, name |-> NoName]>>}]
    \cup {Text}

\* validate_and_clean_game_data runs on the batch vc.raw_games and returns its
\* DataFrame, or raises out of its except clause.
CleanBatch ==
    /\ vc.status = "batch"
    /\ vc' = IF LoopRaises(vc.raw_games)
             THEN [vc EXCEPT !.status = "raised"]
             ELSE [vc EXCEPT !.status = "cleaned",
                             !.df = validate_and_clean_game_data(vc.raw_games, now)]
    /\ UNCHANGED <<watermark, itemState, now, descriptors, run, bronze, ext, fetch, dag>>
    /\ UNCHANGED <<cl, silver>>
    /\ UNCHANGED transformVars
    /\ UNCHANGED qualityVars

\* ------------------------------------------------ extract_dimension_data
\* An item of a link list of a raw record: a dict with id and name, or a string.
LinkItem(id, name) == [kind |-> "dict", id |-> id, name |-> name]
LinkName(name) == [kind |-> "str", id |-> 0, name |-> name]

\* game.get(dimension, [])
Links(game, dimension) ==
    IF dimension \in DOMAIN game THEN game[dimension] ELSE <<>>

\* The items of all games, in the order the two loops visit them.
RECURSIVE AllItems(_, _, _)
AllItems(raw_games, dimension, i) ==
    IF i > Len(raw_games) THEN <<>>
    ELSE Links(raw_games[i], dimension) \o AllItems(raw_games, dimension, i + 1)

\* The id an item gets: its own when it is a dict, next_id when it is a string.
ItemId(items, k) ==
    IF items[k].kind = "dict" THEN items[k].id
    ELSE Cardinality({j \in 1..k : items[j].kind # "dict"})

\* The elements of a sequence at the positions in keep, from position k on.
RECURSIVE KeepAt(_, _, _)
KeepAt(rows, keep, k) ==
    IF k > Len(rows) THEN <<>>
    ELSE (IF k \in keep THEN <<rows[k]>> ELSE <<>>) \o KeepAt(rows, keep, k + 1)

\* The rows before drop_duplicates, and the ones it keeps (the first of each id).
extract_dimension_data(raw_games, dimension) ==
    LET items == AllItems(raw_games, dimension, 1)
        dimension_data == [k \in DOMAIN items |->
                              [id |-> ItemId(items, k), name |-> items[k].name]]
        first == {k \in DOMAIN items :
                     \A j \in 1..(k - 1) : dimension_data[j].id # dimension_data[k].id}
    IN  KeepAt(dimension_data, first, 1)

\* ------------------------------------------------------ lambda_handler
\* The source field of each lookup table, in the order of the dimensions dict.
Dimensions == <<"categories", "mechanics", "families", "publishers", "artists">>
DimTable == [categories |-> "dim_category", mechanics |-> "dim_mechanic",
             families |-> "dim_theme", publishers |-> "dim_publisher",
             artists |-> "dim_artist"]

\* bgg/dim_game/year_published=<year>/data.parquet,
\* bgg/<dim_table>/data_<timestamp>.parquet and bgg/_tmp/<uuid4>-data.parquet
DimGameKey(year) == [table |-> "dim_game", part |-> year]
DimKey(dim_table, timestamp) == [table |-> dim_table, part |-> timestamp]
TempKey(n) == [table |-> "_tmp", part |-> n]

\* The elements of a set of integers in ascending order.
RECURSIVE Sorted(_)
Sorted(S) ==
    IF S = {} THEN <<>>
    ELSE LET m == CHOOSE x \in S : \A y \in S : x <= y IN <<m>> \o Sorted(S \ {m})

\* df_game.groupby('year'): one group per year, in ascending order; groupby
\* leaves out the rows whose key is missing.
YearFiles(df) ==
    LET years == Sorted({df[i].year.v : i \in {j \in DOMAIN df : df[j].year.kind = "int"}})
    IN  [n \in DOMAIN years |->
            [kind |-> "year", table |-> "dim_game", year |-> years[n],
             payload |-> SelectSeq(df, LAMBDA r : r.year = Num(years[n]))]]

\* extract_dimension_data raises for the dimension: no game has an item, so the
\* DataFrame has no column, and df[grouped_column] = df[id_column] (categories
\* and mechanics have a grouped column) is a KeyError.
DimensionRaises(raw_games, dimension) ==
    /\ dimension \in {"categories", "mechanics"}
    /\ AllItems(raw_games, dimension, 1) = <<>>

\* The loop over the dimensions dict raises at some dimension.
DimLoopRaises(raw_games) ==
    \E n \in DOMAIN Dimensions : DimensionRaises(raw_games, Dimensions[n])

\* The lookup tables with at least one row, in the order of the dimensions
\* dict, up to the dimension at which the loop raises.
DimFiles(raw_games) ==
    LET reached == {n \in DOMAIN Dimensions :
                       \A m \in 1..n : ~DimensionRaises(raw_games, Dimensions[m])}
        all == [n \in 1..Cardinality(reached) |->
                   [kind |-> "dim", table |-> DimTable[Dimensions[n]], year |-> 0,
                    payload |-> extract_dimension_data(raw_games, Dimensions[n])]]
    IN  SelectSeq(all, LAMBDA f : Len(f.payload) > 0)

\* The raw records of the files the handler is given: two games, a year or
\* none, a zero player count, one link or none.
HandlerRawGame(b, year_published) ==
    [bgg_game_id |-> Num(b), game_id |-> Num(b), year_published |-> year_published,
     min_players |-> Num(0), max_players |-> Num(4),
     extraction_date |-> Num(MaxTime),
     categories |-> IF b = 1 THEN <<LinkItem(10, "Strategy")>> ELSE <<>>,
     mechanics |-> IF b = 1 THEN <<LinkItem(20, "Dice")>> ELSE <<>>]

HandlerRawGames ==
    {HandlerRawGame(b, y) : b \in 1..2, y \in {NoneValue, Num(2000), Num(2001)}}

\* The content of a bronze file: a list of one to MaxCleanBatch raw records.
HandlerBatches == UNION {[1..n -> HandlerRawGames] : n \in 1..MaxCleanBatch}

NoCl == [status |-> "none", raw_games |-> <<>>, df |-> <<>>, files |-> <<>>, i |-> 0,
         step |-> "none", s3_key |-> TempKey(0), temp_key |-> TempKey(0)]

\* The uuid4 of a temp key is one no object has.
FreshTempKeys == {TempKey(n) : n \in 1..MaxTemp} \ DOMAIN silver

\* A mutant of PutTarget: the buffer is put at the final key.
PutTargetFinal(temp_key, s3_key) == s3_key

\* put_object(Key=temp_key, Body=parquet_buffer)
PutTarget(temp_key, s3_key) == temp_key

\* The object store after put_object or copy_object wrote body at key.
PutObject(store, key, body) ==
    [k \in DOMAIN store \cup {key} |-> IF k = key THEN body ELSE store[k]]

\* The object store after delete_object.
DeleteObject(store, key) == [k \in DOMAIN store \ {key} |-> store[k]]

\* The invocation reads the bronze file of its record, cleans it and has the
\* year groups and then the lookup tables to write.
CleanStart ==
    /\ cl.status = "none"
    /\ \E raw_games \in HandlerBatches :
          LET df_game == validate_and_clean_game_data(raw_games, now)
              files == YearFiles(df_game) \o DimFiles(raw_games)
          IN  cl' = [NoCl EXCEPT !.status = "writing", !.raw_games = raw_games,
                                 !.df = df_game, !.files = files, !.i = 1,
                                 !.step = "buffer"]
    /\ UNCHANGED <<watermark, itemState, now, descriptors, run, bronze, ext, fetch, dag>>
    /\ UNCHANGED <<vc, silver>>
    /\ UNCHANGED transformVars
    /\ UNCHANGED qualityVars

\* The key of file i is made and its buffer is uploaded under a new temp key.
CleanPutTemp ==
    /\ cl.status = "writing"
    /\ cl.step = "buffer"
    /\ cl.i <= Len(cl.files)
    /\ LET f == cl.files[cl.i]
           s3_key == IF f.kind = "year" THEN DimGameKey(f.year)
                     ELSE DimKey(f.table, now)
       IN  \E temp_key \in FreshTempKeys :
              /\ silver' = PutObject(silver, PutTarget(temp_key, s3_key), f.payload)
              /\ cl' = [cl EXCEPT !.step = "temp_written", !.s3_key = s3_key,
                                  !.temp_key = temp_key]
    /\ UNCHANGED <<watermark, itemState, now, descriptors, run, bronze, ext, fetch, dag>>
    /\ UNCHANGED vc
    /\ UNCHANGED transformVars
    /\ UNCHANGED qualityVars

\* copy_object from the temp key to the final key.
CleanCopy ==
    /\ cl.status = "writing"
    /\ cl.step = "temp_written"
    /\ cl.temp_key \in DOMAIN silver
    /\ silver' = PutObject(silver, cl.s3_key, silver[cl.temp_key])
    /\ cl' = [cl EXCEPT !.step = "copied"]
    /\ UNCHANGED <<watermark, itemState, now, descriptors, run, bronze, ext, fetch, dag>>
    /\ UNCHANGED vc
    /\ UNCHANGED transformVars
    /\ UNCHANGED qualityVars

\* delete_object of the temp key; then the next file, or the end of the loop
\* over the dimensions: the 200 response, or the KeyError of an empty dimension.
CleanDeleteTemp ==
    /\ cl.status = "writing"
    /\ cl.step = "copied"
    /\ silver' = DeleteObject(silver, cl.temp_key)
    /\ cl' = IF cl.i < Len(cl.files)
             THEN [cl EXCEPT !.i = @ + 1, !.step = "buffer"]
             ELSE [cl EXCEPT !.status = IF DimLoopRaises(cl.raw_games)
                                        THEN "raised" ELSE "done",
                             !.step = "none"]
    /\ UNCHANGED <<watermark, itemState, now, descriptors, run, bronze, ext, fetch, dag>>
    /\ UNCHANGED vc
    /\ UNCHANGED transformVars
    /\ UNCHANGED qualityVars

\* No file is to be written (no row has a year, and no link or the KeyError of
\* an empty dimension): the 200 response, or the handler re-raises.
CleanNothingToWrite ==
    /\ cl.status = "writing"
    /\ cl.step = "buffer"
    /\ cl.i > Len(cl.files)
    /\ cl' = [cl EXCEPT !.status = IF DimLoopRaises(cl.raw_games)
                                   THEN "raised" ELSE "done",
                        !.step = "none"]
    /\ UNCHANGED <<watermark, itemState, now, descriptors, run, bronze, ext, fetch, dag>>
    /\ UNCHANGED <<vc, silver>>
    /\ UNCHANGED transformVars
    /\ UNCHANGED qualityVars

\* The next call of the object store raises (put_object, copy_object or
\* delete_object): the handler logs and re-raises; cl.step tells how far the
\* file got.
CleanRaise ==
    /\ cl.status = "writing"
    /\ cl.i <= Len(cl.files)
    /\ cl' = [cl EXCEPT !.status = "raised"]
    /\ UNCHANGED <<watermark, itemState, now, descriptors, run, bronze, ext, fetch, dag>>
    /\ UNCHANGED <<vc, silver>>
    /\ UNCHANGED transformVars
    /\ UNCHANGED qualityVars

\* The invocation is over and its locals are gone.
CleanReturn ==
    /\ cl.status \in {"done", "raised"}
    /\ cl' = NoCl
    /\ UNCHANGED <<watermark, itemState, now, descriptors, run, bronze, ext, fetch, dag>>
    /\ UNCHANGED <<vc, silver>>
    /\ UNCHANGED transformVars
    /\ UNCHANGED qualityVars

\* =================================================== silver-to-gold transformer
\* ------------------------------------------------------ read_parquet_from_s3
\* The rows of all objects under bgg/<table>/, in the order the keys are listed.
RECURSIVE ConcatParts(_, _, _)
ConcatParts(store, table, parts) ==
    IF parts = <<>> THEN <<>>
    ELSE store[[table |-> table, part |-> parts[1]]]
         \o ConcatParts(store, table, Tail(parts))

read_parquet_from_s3(store, table) ==
    ConcatParts(store, table, Sorted({k.part : k \in {j \in DOMAIN store : j.table = table}}))

\* dict(zip(df_game['bgg_game_id'], df_game['game_id'])): the last row of an id wins.
GameIdMap(df_game) ==
    [b \in {df_game[i].bgg_game_id : i \in DOMAIN df_game} |->
        df_game[CHOOSE i \in DOMAIN df_game :
                   /\ df_game[i].bgg_game_id = b
                   /\ \A j \in DOMAIN df_game : df_game[j].bgg_game_id = b => j <= i].game_id]

\* A string that holds the digits of n.
NumStr(n) == [kind |-> "numstr", v |-> n]

\* bgg_game_id of a raw game as the loops look it up: a string id is
\* converted with int().
LookupId(game) ==
    LET id == Or(Get(game, "bgg_game_id"), Get(game, "game_id")) IN
    IF id.kind = "numstr" THEN Num(id.v) ELSE id

\* The loop body skips the game: int() raises for a string that is no number,
\* or the id is not in the map.
Skipped(game, game_id_map) ==
    \/ Or(Get(game, "bgg_game_id"), Get(game, "game_id")).kind = "str"
    \/ LookupId(game) \notin DOMAIN game_id_map

GameIdSk(game, game_id_map) == game_id_map[LookupId(game)]

\* The link names in sorted() order, and item.strip().
SortedNames == <<"Dice", "Strategy">>
Strip(name) == IF name = "Dice " THEN "Dice" ELSE name
NameRank(name) == CHOOSE n \in DOMAIN SortedNames : SortedNames[n] = name

\* bridge_data of one game: one record per item that is a non-blank string.
RECURSIVE GameBridgeData(_, _, _)
GameBridgeData(game_id_sk, items, k) ==
    IF k > Len(items) THEN <<>>
    ELSE (IF items[k].kind = "str"
          THEN <<[game_id |-> game_id_sk, name |-> Strip(items[k].name)]>>
          ELSE <<>>) \o GameBridgeData(game_id_sk, items, k + 1)

RECURSIVE BridgeData(_, _, _, _)
BridgeData(raw_games, source_field, game_id_map, i) ==
    IF i > Len(raw_games) THEN <<>>
    ELSE (IF Skipped(raw_games[i], game_id_map) THEN <<>>
          ELSE GameBridgeData(GameIdSk(raw_games[i], game_id_map),
                              Links(raw_games[i], source_field), 1))
         \o BridgeData(raw_games, source_field, game_id_map, i + 1)

\* DataFrame.drop_duplicates(): the first of equal rows is kept.
DropDuplicates(rows) ==
    KeepAt(rows, {k \in DOMAIN rows : \A j \in 1..(k - 1) : rows[j] # rows[k]}, 1)

\* One bridge table of create_bridge_tables: the ids are the ranks of the names
\* among the sorted names of this run; the name column is dropped at the end.
BridgeTable(raw_games, source_field, game_id_map) ==
    LET bridge_data == BridgeData(raw_games, source_field, game_id_map, 1)
        dim_values == {bridge_data[k].name : k \in DOMAIN bridge_data}
        dim_id_map == [name \in dim_values |->
                          Cardinality({m \in dim_values : NameRank(m) <= NameRank(name)})]
        with_ids == [k \in DOMAIN bridge_data |->
                        [game_id |-> bridge_data[k].game_id,
                         name |-> bridge_data[k].name,
                         id |-> dim_id_map[bridge_data[k].name]]]
        df_bridge == DropDuplicates(with_ids)
    IN  [k \in DOMAIN df_bridge |->
            [game_id |-> df_bridge[k].game_id, id |-> df_bridge[k].id]]

\* df_bridge.merge(df_game[['game_id', 'year']], on='game_id', how='left'): one
\* row per bridge row and dim_game row of its game, in the order of the left rows.
RECURSIVE Merge(_, _, _)
Merge(df_bridge, df_game, k) ==
    IF k > Len(df_bridge) THEN <<>>
    ELSE LET matches == SelectSeq(df_game, LAMBDA g : g.game_id = df_bridge[k].game_id)
         IN  (IF matches = <<>>
              THEN <<[game_id |-> df_bridge[k].game_id, id |-> df_bridge[k].id,
                      year |-> NoneValue]>>
              ELSE [m \in DOMAIN matches |->
                       [game_id |-> df_bridge[k].game_id, id |-> df_bridge[k].id,
                        year |-> matches[m].year]])
             \o Merge(df_bridge, df_game, k + 1)

\* The source field and the table of each bridge, in the order of the bridges dict.
Bridges == <<"categories", "mechanics", "families", "publishers", "artists">>
BridgeName == [categories |-> "br_game_category", mechanics |-> "br_game_mechanic",
               families |-> "br_game_theme", publishers |-> "br_game_publisher",
               artists |-> "br_game_artist"]

\* The put_object calls for one bridge table: one per year group, with the
\* year column dropped (groupby leaves out the rows without a year).
BridgeWrites(table_name, df_bridge, df_game) ==
    LET with_year == Merge(df_bridge, df_game, 1)
        years == Sorted({with_year[k].year.v :
                            k \in {j \in DOMAIN with_year : with_year[j].year.kind = "int"}})
    IN  [n \in DOMAIN years |->
            [key |-> [table |-> table_name, part |-> years[n]],
             rows |-> LET year_df == SelectSeq(with_year,
                                               LAMBDA r : r.year = Num(years[n]))
                      IN  [k \in DOMAIN year_df |->
                              [game_id |-> year_df[k].game_id, id |-> year_df[k].id]]]]

RECURSIVE AllBridgeWrites(_, _, _, _)
AllBridgeWrites(raw_games, df_game, game_id_map, n) ==
    IF n > Len(Bridges) THEN <<>>
    ELSE BridgeWrites(BridgeName[Bridges[n]],
                      BridgeTable(raw_games, Bridges[n], game_id_map), df_game)
         \o AllBridgeWrites(raw_games, df_game, game_id_map, n + 1)

\* create_fact_user_rating: one record per raw game whose id is in the map.
RECURSIVE create_fact_user_rating(_, _, _, _)
create_fact_user_rating(raw_games, game_id_map, utcnow, i) ==
    IF i > Len(raw_games) THEN <<>>
    ELSE (IF Skipped(raw_games[i], game_id_map) THEN <<>>
          ELSE <<[user_id_sk |-> "bgg_aggregate",
                  game_id_sk |-> GameIdSk(raw_games[i], game_id_map),
                  extraction_date |->
                      GetDefault(raw_games[i], "extraction_date", Num(utcnow))]>>)
         \o create_fact_user_rating(raw_games, game_id_map, utcnow, i + 1)

\* The put_object calls for the fact table: one per extraction date, with the
\* date columns dropped.
FactWrites(df_fact) ==
    LET dates == Sorted({df_fact[k].extraction_date.v : k \in DOMAIN df_fact}) IN
    [n \in DOMAIN dates |->
        [key |-> [table |-> "fct_user_rating", part |-> dates[n]],
         rows |-> LET date_df == SelectSeq(df_fact,
                                           LAMBDA r : r.extraction_date = Num(dates[n]))
                  IN  [k \in DOMAIN date_df |->
                          [user_id_sk |-> date_df[k].user_id_sk,
                           game_id_sk |-> date_df[k].game_id_sk]]]]

\* The object store after the put_object calls writes[1], ..., writes[n].
RECURSIVE PutAll(_, _, _)
PutAll(store, writes, n) ==
    IF n = 0 THEN store
    ELSE PutObject(PutAll(store, writes, n - 1), writes[n].key, writes[n].rows)

\* ------------------------------------------------------ lambda_handler
\* A batch_name that holds the text date=<day>, and whether a bronze key holds
\* f"date={today}" (the extraction_date=<date> part of a key has dashes in its
\* date and never holds it).
DateBatchName(day) == [name |-> "date=", ts |-> day]
HasDate(key, today) == key.batch_name = DateBatchName(today)

\* The raw games of today's bronze files, in the order the keys are listed
\* (the keys that hold date=<today> differ in their extraction_date part).
RECURSIVE LoadFiles(_, _)
LoadFiles(dates, today) ==
    IF dates = <<>> THEN <<>>
    ELSE bronze[S3Key(dates[1], DateBatchName(today))] \o LoadFiles(Tail(dates), today)

LoadToday(today) ==
    LoadFiles(Sorted({k.extraction_date : k \in {j \in DOMAIN bronze : HasDate(j, today)}}),
              today)

\* The raw records of the bronze files the transformer loads: the id as a
\* number or as a string, string links (one repeated, one padded), two dates.
TransformRawGames ==
    [bgg_game_id : {Num(1), NumStr(2)},
     categories : {<<>>, <<LinkName("Strategy"), LinkName("Strategy")>>,
                   <<LinkName("Dice "), LinkName("Strategy")>>},
     extraction_date : {Num(d) : d \in MaxTime..MaxNow}]

NoTr == [status |-> "none", statusCode |-> 0, raw_games |-> <<>>, df_game |-> <<>>,
         writes |-> <<>>, written |-> 0]

\* The put_object calls of a run that gets to them, bridge tables first.
TransformWrites(raw_games, df_game, utcnow) ==
    LET game_id_map == GameIdMap(df_game) IN
    AllBridgeWrites(raw_games, df_game, game_id_map, 1)
    \o FactWrites(create_fact_user_rating(raw_games, game_id_map, utcnow, 1))

\* An invocation that finds dim_game rows and raw games of today: the bridge
\* tables and the fact table are written; 200.
TransformRun ==
    /\ tr.status = "none"
    /\ LET df_game == read_parquet_from_s3(silver, "dim_game")
           raw_games == LoadToday(now)
           writes == TransformWrites(raw_games, df_game, now)
       IN  /\ df_game # <<>>
           /\ raw_games # <<>>
           /\ gold' = PutAll(gold, writes, Len(writes))
           /\ tr' = [status |-> "done", statusCode |-> 200, raw_games |-> raw_games,
                     df_game |-> df_game, writes |-> writes, written |-> Len(writes)]
    /\ UNCHANGED <<watermark, itemState, now, descriptors, run, bronze, ext, fetch, dag>>
    /\ UNCHANGED cleanerVars
    /\ UNCHANGED qualityVars

\* No dim_game rows in silver, or no raw games of today in bronze: 204.
TransformNoData ==
    /\ tr.status = "none"
    /\ LET df_game == read_parquet_from_s3(silver, "dim_game") IN
       /\ df_game = <<>> \/ LoadToday(now) = <<>>
       /\ tr' = [NoTr EXCEPT !.status = "done", !.statusCode = 204,
                             !.df_game = df_game]
    /\ UNCHANGED <<watermark, itemState, now, descriptors, run, bronze, ext, fetch, dag>>
    /\ UNCHANGED gold
    /\ UNCHANGED cleanerVars
    /\ UNCHANGED qualityVars

\* A put_object raises after the first n objects were written: the handler
\* logs and re-raises.
TransformError ==
    /\ tr.status = "none"
    /\ LET df_game == read_parquet_from_s3(silver, "dim_game")
           raw_games == LoadToday(now)
           writes == TransformWrites(raw_games, df_game, now)
       IN  /\ df_game # <<>>
           /\ raw_games # <<>>
           /\ \E n \in 0..(Len(writes) - 1) :
                 /\ gold' = PutAll(gold, writes, n)
                 /\ tr' = [status |-> "raised", statusCode |-> 0,
                           raw_games |-> raw_games, df_game |-> df_game,
                           writes |-> writes, written |-> n]
    /\ UNCHANGED <<watermark, itemState, now, descriptors, run, bronze, ext, fetch, dag>>
    /\ UNCHANGED cleanerVars
    /\ UNCHANGED qualityVars

\* The invocation is over and its locals are gone.
TransformReturn ==
    /\ tr.status \in {"done", "raised"}
    /\ tr' = NoTr
    /\ UNCHANGED <<watermark, itemState, now, descriptors, run, bronze, ext, fetch, dag>>
    /\ UNCHANGED gold
    /\ UNCHANGED cleanerVars
    /\ UNCHANGED qualityVars

\* =================================================== data quality engine
\* DQ_RULES: the rule categories declared for each table, and their sub-checks.
Categories == <<"completeness", "validity", "consistency", "uniqueness",
                "referential_integrity">>
RequiredFields == {"game_id", "name", "year_published"}
ValidityFields == {"year_published", "min_players", "max_players", "average_rating"}
ConsistencyRules == {"players", "playtime"}
DQ_RULES ==
    [dim_game |-> [categories |-> {"completeness", "validity", "consistency", "uniqueness"},
                   referential_integrity |-> {}],
     br_game_category |-> [categories |-> {"referential_integrity"},
                           referential_integrity |-> {"game_id", "category_id"}],
     br_game_mechanic |-> [categories |-> {"referential_integrity"},
                           referential_integrity |-> {"game_id", "mechanic_id"}]]
\* 'threshold': 0.95, in hundredths.
Threshold == 95

\* ------------------------------------------------------ execute_athena_query
\* The state a query ends in; any state but SUCCEEDED makes the function raise.
AthenaStates == {"SUCCEEDED", "FAILED", "CANCELLED"}

\* The cell SUM(CASE WHEN ... THEN 1 ELSE 0 END) answers over `rows` rows of
\* which `count` meet the condition: SUM over no rows is NULL, and a NULL cell
\* has no VarCharValue, so its value in the parsed row is None.
Sum(rows, count) == IF rows = 0 THEN NoneValue ELSE Num(count)

\* The rows the queries of each check can answer for a table of at most
\* max_rows rows: the completeness query, and a query that counts offenders.
CompletenessAnswers(max_rows) ==
    UNION {{[total_records |-> Num(t),
             nulls |-> [f \in RequiredFields |-> Sum(t, n[f])]] :
               n \in [RequiredFields -> 0..t]} : t \in 0..max_rows}

CountAnswers(max_rows) ==
    UNION {{[total_records |-> Num(t), count |-> Sum(t, k)] : k \in 0..t} :
              t \in 0..max_rows}

\* ------------------------------------------------------ check_completeness
\* completeness = (total - nulls) / total if total > 0 else 0
\* passed = completeness >= threshold, with threshold in hundredths.
CompletenessPassed(total, nulls, threshold) ==
    IF total > 0 THEN (total - nulls) * 100 >= threshold * total ELSE 0 >= threshold

\* int(results[0][...]) raises TypeError for None.
check_completeness(answer, threshold) ==
    LET total == answer.total_records.v
        field_results ==
            [f \in RequiredFields |->
                [passed |-> CompletenessPassed(total, answer.nulls[f].v, threshold),
                 count |-> answer.nulls[f].v, total_count |-> total]]
    IN  [raised |-> \E f \in RequiredFields : answer.nulls[f] = NoneValue,
         passed |-> \A f \in RequiredFields : field_results[f].passed,
         results |-> field_results]

\* ------------------------ check_validity, check_consistency (one query each
\* per field or rule: total_records and the count of offending records)
CheckCounts(names, answers) ==
    LET sub_results ==
            [f \in names |-> [passed |-> answers[f].count = Num(0),
                              count |-> answers[f].count.v,
                              total_count |-> answers[f].total_records.v]]
    IN  [raised |-> \E f \in names : answers[f].count = NoneValue,
         passed |-> \A f \in names : sub_results[f].passed,
         results |-> sub_results]

check_validity(answers) == CheckCounts(ValidityFields, answers)
check_consistency(answers) == CheckCounts(ConsistencyRules, answers)

\* ------------------------------------------------------ check_uniqueness
\* One result row per group of duplicates.
check_uniqueness(duplicate_groups) ==
    [raised |-> FALSE, passed |-> duplicate_groups = 0,
     results |-> [fields |-> [passed |-> duplicate_groups = 0,
                              count |-> duplicate_groups, total_count |-> 0]]]

\* ------------------------------------------- check_referential_integrity
\* COUNT(*) of the rows whose foreign key is not null and has no match.
check_referential_integrity(fields, orphans) ==
    LET integrity_results ==
            [f \in fields |-> [passed |-> orphans[f] = 0, count |-> orphans[f],
                               total_count |-> 0]]
    IN  [raised |-> FALSE,
         passed |-> \A f \in fields : integrity_results[f].passed,
         results |-> integrity_results]

\* ------------------------------------------------------ lambda_handler
\* The table names an event can carry (the last one has no rules).
EventTables == {"dim_game", "br_game_category", "br_game_mechanic", "fct_user_rating"}

\* The answers in which at most MaxOffenders sub-checks count an offender.
FewOffenders(names, answers) ==
    {a \in answers : Cardinality({f \in names : a[f] \notin {NoneValue, Num(0)}})
                         <= MaxOffenders}

\* What the check of a declared category can return for the table.
CategoryResults(category, table_name) ==
    CASE category = "completeness" ->
             {check_completeness(a, Threshold) :
                 a \in {b \in CompletenessAnswers(MaxRows) :
                           b.nulls \in FewOffenders(RequiredFields, {b.nulls})}}
      [] category = "validity" ->
             {check_validity(a) :
                 a \in {b \in [ValidityFields -> CountAnswers(MaxRows)] :
                           [f \in ValidityFields |-> b[f].count]
                               \in FewOffenders(ValidityFields,
                                                {[f \in ValidityFields |-> b[f].count]})}}
      [] category = "consistency" ->
             {check_consistency(a) :
                 a \in {b \in [ConsistencyRules -> CountAnswers(MaxRows)] :
                           [f \in ConsistencyRules |-> b[f].count]
                               \in FewOffenders(ConsistencyRules,
                                                {[f \in ConsistencyRules |-> b[f].count]})}}
      [] category = "uniqueness" ->
             {check_uniqueness(g) : g \in 0..MaxRows}
      [] OTHER ->
             {check_referential_integrity(DQ_RULES[table_name].referential_integrity, o) :
                 o \in [DQ_RULES[table_name].referential_integrity -> 0..MaxRows]}

\* The position in Categories of the first category at or after n that the
\* table declares, Len(Categories) + 1 when there is none.
RECURSIVE NextDeclared(_, _)
NextDeclared(table_name, n) ==
    IF n > Len(Categories) THEN n
    ELSE IF Categories[n] \in DQ_RULES[table_name].categories THEN n
    ELSE NextDeclared(table_name, n + 1)

\* A mutant of AllPassed: one category that passed is enough.
AllPassedAny(checks) == \E c \in DOMAIN checks : checks[c].passed

\* all(check.get('passed', False) for ... in results['checks'].values())
AllPassed(checks) == \A c \in DOMAIN checks : checks[c].passed

\* send_dq_alert: nothing without a topic; else the message is built, and
\* ', '.join(failed_checks) raises TypeError when the list holds a dict; with
\* no failed check the message is published.
send_dq_alert(results, topic) ==
    LET failed_checks == {c \in DOMAIN results.checks : ~results.checks[c].passed} IN
    IF ~topic THEN [raised |-> FALSE, published |-> <<>>]
    ELSE IF failed_checks # {} THEN [raised |-> TRUE, published |-> <<>>]
    ELSE [raised |-> FALSE,
          published |-> <<[check_id |-> results.check_id,
                           table_name |-> results.table_name,
                           failed_checks |-> failed_checks]>>]

NoDq == [status |-> "none", table_name |-> "", check_id |-> 0, timestamp |-> 0,
         topic |-> FALSE, next |-> 0, checks |-> <<>>, overall_status |-> "",
         statusCode |-> 0]

\* str(uuid.uuid4()): an id no stored record has.
FreshCheckIds == (1..MaxChecks) \ DOMAIN dqTable

\* The invocation starts for a table that has rules.
DQStart ==
    /\ dq.status = "none"
    /\ \E table_name \in DOMAIN DQ_RULES, topic \in BOOLEAN, check_id \in FreshCheckIds :
          dq' = [NoDq EXCEPT !.status = "running", !.table_name = table_name,
                             !.check_id = check_id, !.timestamp = now,
                             !.topic = topic, !.next = NextDeclared(table_name, 1)]
    /\ UNCHANGED <<watermark, itemState, now, descriptors, run, bronze, ext, fetch, dag>>
    /\ UNCHANGED <<cc, dqTable, alerts>>
    /\ UNCHANGED cleanerVars
    /\ UNCHANGED transformVars

\* The table has no rules: 400, before anything is stored.
DQNoRules ==
    /\ dq.status = "none"
    /\ \E table_name \in EventTables \ DOMAIN DQ_RULES, topic \in BOOLEAN,
          check_id \in FreshCheckIds :
          dq' = [NoDq EXCEPT !.status = "done", !.statusCode = 400,
                             !.table_name = table_name, !.check_id = check_id,
                             !.timestamp = now, !.topic = topic]
    /\ UNCHANGED <<watermark, itemState, now, descriptors, run, bronze, ext, fetch, dag>>
    /\ UNCHANGED <<cc, dqTable, alerts>>
    /\ UNCHANGED cleanerVars
    /\ UNCHANGED transformVars

\* The check of the next declared category runs its queries: a query that
\* does not end SUCCEEDED, or a None cell given to int(), raises out of the
\* handler; else the result is kept in results['checks'].
DQCheck ==
    /\ dq.status = "running"
    /\ dq.next <= Len(Categories)
    /\ LET category == Categories[dq.next] IN
       \E state \in AthenaStates, result \in CategoryResults(category, dq.table_name) :
          dq' = IF state # "SUCCEEDED" \/ result.raised
                THEN [dq EXCEPT !.status = "raised"]
                ELSE [dq EXCEPT
                         !.checks = [c \in DOMAIN dq.checks \cup {category} |->
                                        IF c = category THEN result ELSE dq.checks[c]],
                         !.next = NextDeclared(dq.table_name, dq.next + 1)]
    /\ UNCHANGED <<watermark, itemState, now, descriptors, run, bronze, ext, fetch, dag>>
    /\ UNCHANGED <<cc, dqTable, alerts>>
    /\ UNCHANGED cleanerVars
    /\ UNCHANGED transformVars

\* The verdict, store_dq_results, send_dq_alert when the verdict is FAILED,
\* and the 200 response unless send_dq_alert raised.
DQFinish ==
    /\ dq.status = "running"
    /\ dq.next > Len(Categories)
    /\ LET all_passed == AllPassed(dq.checks)
           results == [check_id |-> dq.check_id, timestamp |-> dq.timestamp,
                       table_name |-> dq.table_name, checks |-> dq.checks,
                       overall_status |-> IF all_passed THEN "PASSED" ELSE "FAILED"]
           alert == IF all_passed THEN [raised |-> FALSE, published |-> <<>>]
                    ELSE send_dq_alert(results, dq.topic)
       IN  /\ dqTable' = [k \in DOMAIN dqTable \cup {dq.check_id} |->
                             IF k = dq.check_id THEN results ELSE dqTable[k]]
           /\ alerts' = alerts \o alert.published
           /\ dq' = [dq EXCEPT !.overall_status = results.overall_status,
                               !.status = IF alert.raised THEN "raised" ELSE "done",
                               !.statusCode = IF alert.raised THEN 0 ELSE 200]
    /\ UNCHANGED <<watermark, itemState, now, descriptors, run, bronze, ext, fetch, dag>>
    /\ UNCHANGED cc
    /\ UNCHANGED cleanerVars
    /\ UNCHANGED transformVars

\* put_item raises in store_dq_results: nothing is stored, no alert is sent.
DQStoreRaises ==
    /\ dq.status = "running"
    /\ dq.next > Len(Categories)
    /\ dq' = [dq EXCEPT !.status = "raised",
                        !.overall_status = IF AllPassed(dq.checks) THEN "PASSED"
                                           ELSE "FAILED"]
    /\ UNCHANGED <<watermark, itemState, now, descriptors, run, bronze, ext, fetch, dag>>
    /\ UNCHANGED <<cc, dqTable, alerts>>
    /\ UNCHANGED cleanerVars
    /\ UNCHANGED transformVars

\* The invocation is over and its locals are gone.
DQReturn ==
    /\ dq.status \in {"done", "raised"}
    /\ dq' = NoDq
    /\ UNCHANGED <<watermark, itemState, now, descriptors, run, bronze, ext, fetch, dag>>
    /\ UNCHANGED <<cc, dqTable, alerts>>
    /\ UNCHANGED cleanerVars
    /\ UNCHANGED transformVars

\* ------------------------------------------- check_completeness on its own
\* The thresholds a rule can declare, in hundredths.
Thresholds == {0, 50, Threshold, 100}

NoCc == [status |-> "none", total |-> 0, nulls |-> [f \in RequiredFields |-> 0],
         threshold |-> Threshold, passed |-> FALSE,
         results |-> [f \in RequiredFields |-> FALSE]]

\* check_completeness runs on a table of cc.total rows of which cc.nulls[f]
\* have no value in field f, and returns or raises.
CompletenessReturn ==
    /\ cc.status = "called"
    /\ LET answer == [total_records |-> Num(cc.total),
                      nulls |-> [f \in RequiredFields |-> Sum(cc.total, cc.nulls[f])]]
           r == check_completeness(answer, cc.threshold)
       IN  cc' = IF r.raised THEN [cc EXCEPT !.status = "raised"]
                 ELSE [cc EXCEPT !.status = "returned", !.passed = r.passed,
                                 !.results = [f \in RequiredFields |->
                                                 r.results[f].passed]]
    /\ UNCHANGED <<watermark, itemState, now, descriptors, run, bronze, ext, fetch, dag>>
    /\ UNCHANGED <<dq, dqTable, alerts>>
    /\ UNCHANGED cleanerVars
    /\ UNCHANGED transformVars

\* =================================================== orchestrator (the DAG)
\* The run of bgg_etl_pipeline up to its extract task:
\*   game_id_discovery >> wait_for_game_id_file >> get_latest_game_id_file
\*   >> extract_bgg_data
\* dag.status is the last task that succeeded; dag.xcom is the value
\* get_latest_game_id_file returned; dag.event is the payload the worker was
\* invoked with.
NoXCom == [bucket |-> "", s3_key |-> 0]
NoDag == [status |-> "none", xcom |-> NoXCom, event |-> NoXCom]

\* get_latest_discovered_ids_key: the key under game_ids/discovered_ with the
\* greatest LastModified (an object here was written at its timestamp), or
\* ValueError when there is none.
get_latest_discovered_ids_key(store) ==
    IF DOMAIN store = {}
    THEN [raised |-> TRUE, value |-> NoXCom]
    ELSE [raised |-> FALSE,
          value |-> [bucket |-> "bronze",
                     s3_key |-> CHOOSE k \in DOMAIN store :
                                    \A j \in DOMAIN store : j <= k]]

\* event.get('game_ids', []) of the worker's handler.
EventGameIds(event) ==
    IF "game_ids" \in DOMAIN event THEN event.game_ids ELSE <<>>

\* Task game_id_discovery: the discovery function is invoked with
\* invocation_type 'Event'; the task succeeds when the invocation is queued.
DagInvokeDiscovery ==
    /\ dag.status = "none"
    /\ dag' = [dag EXCEPT !.status = "game_id_discovery"]
    /\ UNCHANGED <<watermark, itemState, now, descriptors, run, bronze, ext, fetch>>
    /\ UNCHANGED cleanerVars
    /\ UNCHANGED transformVars
    /\ UNCHANGED qualityVars

\* The queued invocation starts the discovery handler, which gets as far as
\* strategy 1 or raises before it.
DagDiscoveryStart ==
    /\ dag.status # "none"
    /\ (DiscoveryStart \/ DiscoveryConfigError)

\* Task wait_for_game_id_file: the sensor succeeds when some key matches
\* game_ids/discovered_*.json.
DagWaitForGameIdFile ==
    /\ dag.status = "game_id_discovery"
    /\ DOMAIN descriptors # {}
    /\ dag' = [dag EXCEPT !.status = "wait_for_game_id_file"]
    /\ UNCHANGED <<watermark, itemState, now, descriptors, run, bronze, ext, fetch>>
    /\ UNCHANGED cleanerVars
    /\ UNCHANGED transformVars
    /\ UNCHANGED qualityVars

\* Task get_latest_game_id_file: its return value is pushed to XCom.
DagGetLatestGameIdFile ==
    /\ dag.status = "wait_for_game_id_file"
    /\ LET r == get_latest_discovered_ids_key(descriptors) IN
       dag' = IF r.raised THEN [dag EXCEPT !.status = "failed"]
              ELSE [dag EXCEPT !.status = "get_latest_game_id_file", !.xcom = r.value]
    /\ UNCHANGED <<watermark, itemState, now, descriptors, run, bronze, ext, fetch>>
    /\ UNCHANGED cleanerVars
    /\ UNCHANGED transformVars
    /\ UNCHANGED qualityVars

\* Task extract_bgg_data: the worker is invoked with invocation_type 'Event'
\* and the XCom value as its payload.
DagInvokeExtract ==
    /\ dag.status = "get_latest_game_id_file"
    /\ dag' = [dag EXCEPT !.status = "extract_bgg_data", !.event = dag.xcom]
    /\ UNCHANGED <<watermark, itemState, now, descriptors, run, bronze, ext, fetch>>
    /\ UNCHANGED cleanerVars
    /\ UNCHANGED transformVars
    /\ UNCHANGED qualityVars

\* The queued invocation runs the worker's handler on dag.event: 400 when the
\* event has no game_ids, else the loop over them and the put_object.
DagExtractRun ==
    /\ dag.status = "extract_bgg_data"
    /\ ext.status = "none"
    /\ LET game_ids == EventGameIds(dag.event) IN
       IF game_ids = <<>>
       THEN /\ ext' = [NoExt EXCEPT !.status = "done", !.statusCode = 400]
            /\ bronze' = bronze
       ELSE \E scripts \in [1..Len(game_ids) -> [1..WorkerMaxRetries -> Outcomes]] :
               LET r == ProcessBatch(game_ids, scripts, 1, now)
                   s3_key == S3Key(now, BatchName(NoBatchName, now))
               IN  /\ bronze' =
                         IF r.games_data # <<>>
                         THEN [k \in DOMAIN bronze \cup {s3_key} |->
                                  IF k = s3_key THEN r.games_data ELSE bronze[k]]
                         ELSE bronze
                   /\ ext' = [status |-> "done", statusCode |-> 200,
                              game_ids |-> game_ids, s3_key |-> s3_key,
                              calls |-> r.calls, games_data |-> r.games_data,
                              failed_ids |-> r.failed_ids,
                              games_processed |-> Len(r.games_data),
                              games_failed |-> Len(r.failed_ids)]
    /\ UNCHANGED <<watermark, itemState, now, descriptors, run, fetch, dag>>
    /\ UNCHANGED cleanerVars
    /\ UNCHANGED transformVars
    /\ UNCHANGED qualityVars

\* The put_object calls a whole cleaner invocation ends up with.
CleanerWrites(raw_games, utcnow) ==
    LET files == YearFiles(validate_and_clean_game_data(raw_games, utcnow))
                 \o DimFiles(raw_games)
    IN  [n \in DOMAIN files |->
            [key |-> IF files[n].kind = "year" THEN DimGameKey(files[n].year)
                     ELSE DimKey(files[n].table, utcnow),
             rows |-> files[n].payload]]

\* =================================================== the stages in a row
\* What the remote's item holds besides min_players = 0 and the category
\* "Strategy": a year or none, a mechanic or none.
ParsedItems ==
    [year_published : {NoneValue, Num(2000)},
     mechanics : {<<>>, <<LinkItem(20, "Dice")>>}]

\* The game_data parse_game_xml builds for such an item, with the fields the
\* cleaner and the transformer read: the links are dicts with id and name.
parse_game_xml(game_data, item) ==
    [game_id |-> NumStr(game_data.game_id),
     bgg_game_id |-> Num(game_data.game_id),
     extraction_date |-> Num(game_data.extraction_date),
     year_published |-> item.year_published,
     min_players |-> Num(0), max_players |-> Num(4),
     categories |-> <<LinkItem(10, "Strategy")>>,
     mechanics |-> item.mechanics]

\* The worker is invoked with game_ids [1, 2], with the default batch_name or
\* one that holds date=<today>, and saves the games it parsed.
StagesExtract ==
    /\ ext.status = "none"
    /\ DOMAIN bronze = {}
    /\ \E batch_name \in {BatchName(NoBatchName, now), DateBatchName(now)},
          item \in ParsedItems,
          scripts \in [1..2 -> [1..WorkerMaxRetries -> Outcomes]] :
          LET game_ids == <<1, 2>>
              r == ProcessBatch(game_ids, scripts, 1, now)
              s3_key == S3Key(now, batch_name)
          IN  /\ bronze' =
                    IF r.games_data # <<>>
                    THEN PutObject(bronze, s3_key,
                                   [k \in DOMAIN r.games_data |->
                                       parse_game_xml(r.games_data[k], item)])
                    ELSE bronze
              /\ ext' = [status |-> "done", statusCode |-> 200,
                         game_ids |-> game_ids, s3_key |-> s3_key,
                         calls |-> r.calls, games_data |-> r.games_data,
                         failed_ids |-> r.failed_ids,
                         games_processed |-> Len(r.games_data),
                         games_failed |-> Len(r.failed_ids)]
    /\ UNCHANGED <<watermark, itemState, now, descriptors, run, fetch>>
    /\ UNCHANGED warehouseVars

\* The cleaner is invoked for the object the worker saved: it cleans the
\* records, writes the year groups and the lookup tables, and returns 200 or
\* re-raises the KeyError of an empty dimension.
StagesClean ==
    /\ ext.status = "done"
    /\ ext.s3_key \in DOMAIN bronze
    /\ cl.status = "none"
    /\ LET raw_games == bronze[ext.s3_key]
           writes == CleanerWrites(raw_games, now)
       IN  /\ silver' = PutAll(silver, writes, Len(writes))
           /\ cl' = [NoCl EXCEPT
                        !.status = IF DimLoopRaises(raw_games) THEN "raised" ELSE "done",
                        !.raw_games = raw_games,
                        !.df = validate_and_clean_game_data(raw_games, now)]
    /\ UNCHANGED <<watermark, itemState, now, descriptors, run, bronze, ext, fetch, dag>>
    /\ UNCHANGED vc
    /\ UNCHANGED transformVars
    /\ UNCHANGED qualityVars

\* The transformer is invoked after the cleaner.
StagesTransform ==
    /\ cl.status # "none"
    /\ (TransformRun \/ TransformNoData)

\* Nothing runs in the cleaner, the transformer and the data-quality engine,
\* and their stores are empty.
IdleWarehouse ==
    /\ vc = NoVc
    /\ cl = NoCl
    /\ silver = <<>>
    /\ tr = NoTr
    /\ gold = <<>>
    /\ cc = NoCc
    /\ dq = NoDq
    /\ dqTable = <<>>
    /\ alerts = <<>>
    /\ dag = NoDag

\* The clock advances.
Tick ==
    /\ now < MaxNow
    /\ now' = now + 1
    /\ UNCHANGED <<watermark, itemState, descriptors, run, bronze, ext, fetch>>
    /\ UNCHANGED warehouseVars

InitDiscovery ==
    /\ watermark = [present |-> FALSE, value |-> 1]
    /\ itemState \in {S \in SUBSET StateRecords : Cardinality(S) <= MaxRecords}
    /\ now \in MaxTime..MaxNow
    /\ descriptors = <<>>
    /\ run = NoRun
    /\ bronze = <<>>
    /\ ext = NoExt
    /\ fetch = NoFetch
    /\ IdleWarehouse

NextDiscovery ==
    \/ DiscoveryStart
    \/ DiscoveryConfigError
    \/ DiscoveryScan
    \/ DiscoveryScanRaises
    \/ DiscoveryRefresh
    \/ DiscoveryWrite
    \/ DiscoveryWriteRaises
    \/ DiscoveryReturn

SpecDiscovery == InitDiscovery /\ [][NextDiscovery]_vars

\* The worker, invoked again and again while the clock advances.
InitExtract ==
    /\ watermark = [present |-> FALSE, value |-> 1]
    /\ itemState = {}
    /\ now = MaxTime
    /\ descriptors = <<>>
    /\ run = NoRun
    /\ bronze = <<>>
    /\ ext = NoExt
    /\ fetch = NoFetch
    /\ IdleWarehouse

NextExtract ==
    \/ ExtractRun
    \/ ExtractNoGameIds
    \/ ExtractError
    \/ ExtractReturn
    \/ Tick

SpecExtract == InitExtract /\ [][NextExtract]_vars

\* One run of the DAG: the discovery invocation it queued runs beside its
\* tasks while the clock advances; blob storage is empty or holds the
\* descriptor of an earlier run.
InitDag ==
    /\ watermark = [present |-> FALSE, value |-> 1]
    /\ itemState = {}
    /\ now = MaxTime
    /\ descriptors \in {<<>>} \cup {[k \in {0} |-> Descriptor(0, <<i>>)] : i \in IDs}
    /\ run = NoRun
    /\ bronze = <<>>
    /\ ext = NoExt
    /\ fetch = NoFetch
    /\ IdleWarehouse

NextDag ==
    \/ DagInvokeDiscovery
    \/ DagDiscoveryStart
    \/ DiscoveryScan
    \/ DiscoveryScanRaises
    \/ DiscoveryRefresh
    \/ DiscoveryWrite
    \/ DiscoveryWriteRaises
    \/ DagWaitForGameIdFile
    \/ DagGetLatestGameIdFile
    \/ DagInvokeExtract
    \/ DagExtractRun
    \/ Tick

SpecDag == InitDag /\ [][NextDag]_vars

\* fetch_game_data called with any max_retries in 0..MaxRetries, the remote
\* answering its calls in any way.
InitFetch ==
    /\ watermark = [present |-> FALSE, value |-> 1]
    /\ itemState = {}
    /\ now = MaxTime
    /\ descriptors = <<>>
    /\ run = NoRun
    /\ bronze = <<>>
    /\ IdleWarehouse
    /\ ext = NoExt
    /\ fetch \in [status : {"called"}, game_id : WorkerIds, max_retries : 0..MaxRetries,
                  script : Scripts, data : {FALSE}, calls : {<<>>}, sleeps : {<<>>}]

NextFetch == FetchReturn

SpecFetch == InitFetch /\ [][NextFetch]_vars

\* Discovery and the worker are idle and their stores are empty.
IdlePipeline ==
    /\ watermark = [present |-> FALSE, value |-> 1]
    /\ itemState = {}
    /\ descriptors = <<>>
    /\ run = NoRun
    /\ bronze = <<>>
    /\ ext = NoExt
    /\ fetch = NoFetch

\* validate_and_clean_game_data called again and again on batches that hold one
\* raw record, while the clock advances.
InitClean ==
    /\ IdlePipeline
    /\ now = MaxTime
    /\ vc \in {[NoVc EXCEPT !.status = "idle", !.probe = R] : R \in CleanRawGames}
    /\ cl = NoCl
    /\ silver = <<>>
    /\ tr = NoTr
    /\ gold = <<>>
    /\ cc = NoCc
    /\ dq = NoDq
    /\ dqTable = <<>>
    /\ alerts = <<>>
    /\ dag = NoDag

NextClean ==
    \/ ValidateAndClean
    \/ Tick

SpecClean == InitClean /\ [][NextClean]_vars

\* validate_and_clean_game_data called once on a list of up to MaxCleanBatch
\* elements, some of which make the loop body raise.
InitCleanBatch ==
    /\ IdlePipeline
    /\ now = MaxTime
    /\ vc \in {[NoVc EXCEPT !.status = "batch", !.raw_games = b] :
                 b \in UNION {[1..n -> BatchRawGames] : n \in 1..MaxCleanBatch}}
    /\ cl = NoCl
    /\ silver = <<>>
    /\ tr = NoTr
    /\ gold = <<>>
    /\ cc = NoCc
    /\ dq = NoDq
    /\ dqTable = <<>>
    /\ alerts = <<>>
    /\ dag = NoDag

NextCleanBatch == CleanBatch

SpecCleanBatch == InitCleanBatch /\ [][NextCleanBatch]_vars

\* The cleaner, invoked again and again on bronze files, its object-store
\* calls failing at any point.
InitCleanWrite ==
    /\ IdlePipeline
    /\ now = MaxTime
    /\ IdleWarehouse

NextCleanWrite ==
    \/ CleanStart
    \/ CleanPutTemp
    \/ CleanCopy
    \/ CleanDeleteTemp
    \/ CleanNothingToWrite
    \/ CleanRaise
    \/ CleanReturn
    \/ Tick

SpecCleanWrite == InitCleanWrite /\ [][NextCleanWrite]_vars

\* Silver as one cleaner invocation leaves it, or empty.
CleanedSilvers ==
    {<<>>} \cup {PutAll(<<>>, CleanerWrites(b, MaxTime), Len(CleanerWrites(b, MaxTime))) :
                    b \in HandlerBatches}

\* Bronze with the files of today: none, one file of up to MaxBronzeGames raw
\* games, or that file and a second one with one raw game of the first date.
TodayBronzes ==
    LET key1 == S3Key(MaxTime, DateBatchName(MaxTime))
        key2 == S3Key(MaxNow, DateBatchName(MaxTime))
        first == UNION {[1..n -> TransformRawGames] : n \in 1..MaxBronzeGames}
    IN  {<<>>}
        \cup {PutObject(<<>>, key1, f) : f \in first}
        \cup {PutObject(PutObject(<<>>, key1, f), key2, <<g>>) :
                 f \in first,
                 g \in {r \in TransformRawGames :
                           /\ r.categories = <<LinkName("Strategy"), LinkName("Strategy")>>
                           /\ r.extraction_date = Num(MaxTime)}}

\* The transformer, invoked again and again on one content of silver and bronze.
InitTransform ==
    /\ watermark = [present |-> FALSE, value |-> 1]
    /\ itemState = {}
    /\ descriptors = <<>>
    /\ run = NoRun
    /\ bronze \in TodayBronzes
    /\ ext = NoExt
    /\ fetch = NoFetch
    /\ now = MaxTime
    /\ vc = NoVc
    /\ cl = NoCl
    /\ silver \in CleanedSilvers
    /\ tr = NoTr
    /\ gold = <<>>
    /\ cc = NoCc
    /\ dq = NoDq
    /\ dqTable = <<>>
    /\ alerts = <<>>
    /\ dag = NoDag

NextTransform ==
    \/ TransformRun
    \/ TransformNoData
    \/ TransformError
    \/ TransformReturn

SpecTransform == InitTransform /\ [][NextTransform]_vars

\* The raw records of a bronze file that both the cleaner and the transformer
\* read: links given as strings (in either order, one padded) or as a dict.
SharedRawGames ==
    [bgg_game_id : {Num(1), Num(2)}, game_id : {NoneValue},
     year_published : {NoneValue, Num(2000)},
     min_players : {Num(2)}, max_players : {Num(4)},
     extraction_date : {Num(MaxTime)},
     categories : {<<>>, <<LinkName("Strategy")>>, <<LinkItem(10, "Strategy")>>,
                   <<LinkName("Strategy"), LinkName("Dice ")>>},
     mechanics : {<<>>, <<LinkName("Dice")>>}]

\* One bronze file of today, in silver what the cleaner wrote for that file;
\* the transformer is invoked again and again.
InitIntegrity ==
    /\ watermark = [present |-> FALSE, value |-> 1]
    /\ itemState = {}
    /\ descriptors = <<>>
    /\ run = NoRun
    /\ ext = NoExt
    /\ fetch = NoFetch
    /\ now = MaxTime
    /\ \E b \in UNION {[1..n -> SharedRawGames] : n \in 1..MaxBronzeGames} :
          /\ bronze = PutObject(<<>>, S3Key(MaxTime, DateBatchName(MaxTime)), b)
          /\ silver = PutAll(<<>>, CleanerWrites(b, MaxTime),
                             Len(CleanerWrites(b, MaxTime)))
    /\ vc = NoVc
    /\ cl = NoCl
    /\ tr = NoTr
    /\ gold = <<>>
    /\ cc = NoCc
    /\ dq = NoDq
    /\ dqTable = <<>>
    /\ alerts = <<>>
    /\ dag = NoDag

NextIntegrity ==
    \/ TransformRun
    \/ TransformNoData
    \/ TransformError
    \/ TransformReturn

SpecIntegrity == InitIntegrity /\ [][NextIntegrity]_vars

\* The worker, then the cleaner on what it saved, then the transformer, on one
\* day and with empty stores at the start.
InitStages ==
    /\ IdlePipeline
    /\ now = MaxTime
    /\ IdleWarehouse

NextStages ==
    \/ StagesExtract
    \/ StagesClean
    \/ StagesTransform

SpecStages == InitStages /\ [][NextStages]_vars

\* The data-quality engine, invoked again and again.
InitQuality ==
    /\ IdlePipeline
    /\ now = MaxTime
    /\ IdleWarehouse

NextQuality ==
    \/ DQStart
    \/ DQNoRules
    \/ DQCheck
    \/ DQFinish
    \/ DQStoreRaises
    \/ DQReturn

SpecQuality == InitQuality /\ [][NextQuality]_vars

\* check_completeness called for any table of up to MaxTotal rows, any number
\* of missing values per required field and any threshold.
InitCompleteness ==
    /\ IdlePipeline
    /\ now = MaxTime
    /\ vc = NoVc
    /\ cl = NoCl
    /\ silver = <<>>
    /\ tr = NoTr
    /\ gold = <<>>
    /\ cc \in UNION {[status : {"called"}, total : {t},
                     nulls : [RequiredFields -> 0..t], threshold : Thresholds,
                     passed : {FALSE}, results : {[f \in RequiredFields |-> FALSE]}] :
                       t \in 0..MaxTotal}
    /\ dq = NoDq
    /\ dqTable = <<>>
    /\ alerts = <<>>
    /\ dag = NoDag

NextCompleteness == CompletenessReturn

SpecCompleteness == InitCompleteness /\ [][NextCompleteness]_vars

\* =================================================== discovery: claims

\* C1 (as claimed): across sequential discovery runs the stored Crawl Watermark
\* never decreases, also in a run whose get_last_scanned_id fails.
C1_WatermarkNeverDecreases ==
    [][watermark.present => watermark'.value >= watermark.value]_vars

\* C2 (as claimed): a run that starts its window at w with scan_range_size s
\* stores w + s when the range scan finishes, whatever the sub-batch requests
\* answered, and the window of a run starts at the watermark the run before it
\* stored (no overlap, no gap).
C2_WindowsAreContiguous ==
    [][(run.status = "hot" /\ run'.status = "scanned") =>
          /\ watermark'.value = run'.last_scanned_id + run'.limits.scan_range_size
          /\ watermark.present => run'.last_scanned_id = watermark.value]_vars

\* The ids of the batch a finished run wrote, split by strategy.
WrittenIds == Range(descriptors[run.timestamp].game_ids)
NonRefreshIds == WrittenIds \ run.games_to_refresh
RefreshIds == WrittenIds \cap run.games_to_refresh

Before(p, r) ==
    \/ p.last_updated < r.last_updated
    \/ p.last_updated = r.last_updated /\ p.game_id < r.game_id

\* C5 (as claimed): the refresh strategy returns only items with a COMPLETED
\* record older than the cutoff, at most refresh_limit of them, and every item
\* it returns has a record that comes before every record of a qualifying item
\* it left out (oldest first, ties by ascending id).
C5_RefreshOldestFirstThenId ==
    run.status \in {"queried", "done"} =>
        LET Q == StaleRecords(run.cutoff_date)
            S == run.games_to_refresh
        IN  /\ S \subseteq {r.game_id : r \in Q}
            /\ Cardinality(S) <= run.limits.refresh_limit
            /\ \A g \in S, r \in Q :
                  r.game_id \notin S =>
                      \E p \in Q : p.game_id = g /\ Before(p, r)

\* =================================================== worker: claims

BatchPositions == 1..Len(ext.game_ids)
Last(s) == s[Len(s)]
\* The positions of the batch whose fetch ended with a parsed item, the others,
\* and the k-th smallest position of a set of positions.
OkPositions == {i \in BatchPositions : Last(ext.calls[i]) = "ok"}
FailedPositions == BatchPositions \ OkPositions
Nth(P, k) == CHOOSE i \in P : Cardinality({j \in P : j <= i}) = k

\* C6 (as claimed): for every id of an extraction batch the worker records Item
\* State, IN_PROGRESS first and then one terminal status of the attempt:
\* COMPLETED when fetch and parse succeeded, FAILED otherwise.
C6_TerminalItemStateRecorded ==
    (ext.status = "done" /\ ext.statusCode = 200) =>
        \A i \in BatchPositions :
            \E r \in itemState :
                /\ r.game_id = ext.game_ids[i]
                /\ r.processing_status =
                      IF i \in OkPositions THEN "COMPLETED" ELSE "FAILED"

\* C7: in one invocation that answers 200, whatever fails per item, every id of
\* the batch is attempted, in order, and lands in the saved raw output or in
\* failed_ids, never in both; games_processed + games_failed is the number of
\* ids given; an item after a failed one is still fetched and saved.
C7_EveryItemAttemptedOnce ==
    (ext.status = "done" /\ ext.statusCode = 200) =>
        /\ Len(ext.calls) = Len(ext.game_ids)
        /\ \A i \in BatchPositions : Len(ext.calls[i]) >= 1
        /\ Len(ext.games_data) = Cardinality(OkPositions)
        /\ Len(ext.failed_ids) = Cardinality(FailedPositions)
        /\ \A k \in 1..Len(ext.games_data) :
              ext.games_data[k].game_id = ext.game_ids[Nth(OkPositions, k)]
        /\ \A k \in 1..Len(ext.failed_ids) :
              ext.failed_ids[k] = ext.game_ids[Nth(FailedPositions, k)]
        /\ OkPositions # {} =>
              /\ ext.s3_key \in DOMAIN bronze
              /\ bronze[ext.s3_key] = ext.games_data
        /\ ext.games_processed + ext.games_failed = Len(ext.game_ids)

\* C7's case: the first item of a batch of two fails, the second is fetched
\* and is the one saved.
C7_Witness ==
    /\ ext.status = "done"
    /\ ext.statusCode = 200
    /\ Len(ext.game_ids) = 2
    /\ Last(ext.calls[1]) # "ok"
    /\ Last(ext.calls[2]) = "ok"
    /\ ext.failed_ids = <<ext.game_ids[1]>>
    /\ Len(bronze[ext.s3_key]) = 1
    /\ bronze[ext.s3_key][1].game_id = ext.game_ids[2]

\* C8 (as claimed): an item whose remote call fails with a transient network
\* error (DNS failure, timeout) is tried again within the invocation.
C8_TransientErrorIsRetried ==
    (ext.status = "done" /\ ext.statusCode = 200) =>
        \A i \in BatchPositions :
            ext.calls[i][1] = "socket_error" => Len(ext.calls[i]) >= 2

\* The errors the claim says are never retried.
NotRetried == {"request_exception", "malformed_xml", "no_item", "parse_exception"}

\* C9: fetch_game_data never makes another call after an HTTP-level error or a
\* parse error and returns a failure (one call when it is the first answer);
\* for every sequence of answers it makes at most max_retries calls and returns.
C9_NoRetryOfHttpOrParseErrors ==
    /\ fetch.status = "called" => ENABLED FetchReturn
    /\ fetch.status = "returned" =>
          LET n == Len(fetch.calls) IN
          /\ n <= fetch.max_retries
          /\ \A k \in 1..n : fetch.calls[k] \in NotRetried => (k = n /\ ~fetch.data)
          /\ (fetch.max_retries >= 1 /\ fetch.script[1] \in NotRetried) =>
                 (n = 1 /\ ~fetch.data)

\* C9's case: a socket error is retried, the second call gets an HTTP error and
\* is the last one although a third call was allowed.
C9_Witness ==
    /\ fetch.status = "returned"
    /\ fetch.max_retries >= 3
    /\ fetch.calls = <<"socket_error", "request_exception">>
    /\ ~fetch.data

\* C10 (as claimed): after any sequence of extractions blob storage holds at
\* most one raw record per item id and extraction date: a later batch that
\* extracts the item again overwrites it.
C10_OneRawRecordPerItemAndDate ==
    \A id \in WorkerIds, d \in 0..MaxNow :
        Cardinality({k \in DOMAIN bronze :
                        /\ k.extraction_date = d
                        /\ \E j \in 1..Len(bronze[k]) : bronze[k][j].game_id = id}) <= 1

\* =================================================== cleaner: claims

\* C11 (as claimed): cleaning the same raw record twice, at different times,
\* alone or inside different batches, yields the same surrogate key and the
\* same value for every attribute of the cleaned row.
C11_CleaningIsDeterministic == Cardinality(vc.rows) <= 1

AtLeastOne(cell) == cell.kind = "int" /\ cell.v >= 1

\* C12 (as claimed): every cleaned record has min_players >= 1 and
\* max_players >= 1, for every raw value of the two fields: 0, positive,
\* negative, missing, not a number.
C12_PlayerCountsAtLeastOne ==
    \A i \in DOMAIN vc.df :
        AtLeastOne(vc.df[i].min_players) /\ AtLeastOne(vc.df[i].max_players)

\* C13: the object at a final key changes only in the copy step of the file
\* being written, after its buffer was put under the temp key, and becomes the
\* complete buffer; a final key never disappears; a temp object is deleted only
\* after its copy.  So a failure before the copy leaves the final key as it was
\* (absent when it was absent).
C13_AtomicWrite ==
    [][/\ \A k \in DOMAIN silver : k.table # "_tmp" => k \in DOMAIN silver'
       /\ \A k \in DOMAIN silver' :
             (k.table # "_tmp" /\ (k \notin DOMAIN silver \/ silver'[k] # silver[k])) =>
                /\ cl.step = "temp_written"
                /\ cl'.step = "copied"
                /\ k = cl.s3_key
                /\ cl.temp_key \in DOMAIN silver
                /\ silver[cl.temp_key] = cl.files[cl.i].payload
                /\ silver'[k] = cl.files[cl.i].payload
       /\ \A k \in DOMAIN silver \ DOMAIN silver' :
             /\ k = cl.temp_key
             /\ cl.step = "copied"
             /\ silver[cl.s3_key] = cl.files[cl.i].payload]_vars

\* C13's case: the invocation failed between the temp write and the copy; the
\* temp object is there and the final key, absent before, is still absent.
C13_Witness ==
    /\ cl.status = "raised"
    /\ cl.step = "temp_written"
    /\ cl.temp_key \in DOMAIN silver
    /\ cl.s3_key \notin DOMAIN silver

\* =================================================== transformer: claims

\* The rows a run wrote to the partitions of a table, with their partition.
WrittenRows(table) ==
    {[n |-> n, k |-> k] : n \in {m \in DOMAIN tr.writes : tr.writes[m].key.table = table},
                          k \in 1..2 * MaxBronzeGames + 2}
    \cap {e \in [n : DOMAIN tr.writes, k : 1..2 * MaxBronzeGames + 2] :
             e.k <= Len(tr.writes[e.n].rows)}

\* C14 (as claimed): after a transform run no (game key, dimension key) pair
\* is twice in a bridge table as written to the gold layer, whatever the raw
\* batch and the content of dim_game.
C14_BridgePairsUnique ==
    (tr.status = "done" /\ tr.statusCode = 200) =>
        \A c \in DOMAIN BridgeName :
            \A e1, e2 \in WrittenRows(BridgeName[c]) :
                e1 # e2 => tr.writes[e1.n].rows[e1.k] # tr.writes[e2.n].rows[e2.k]

\* C15 (as claimed): the fact table a run writes has exactly one row per game
\* and extraction date of the raw records loaded, in the partition of that date.
C15_OneFactRowPerGameAndDay ==
    (tr.status = "done" /\ tr.statusCode = 200) =>
        \A i \in DOMAIN tr.raw_games :
            ~Skipped(tr.raw_games[i], GameIdMap(tr.df_game)) =>
                Cardinality({e \in WrittenRows("fct_user_rating") :
                    /\ tr.writes[e.n].key.part = tr.raw_games[i].extraction_date.v
                    /\ tr.writes[e.n].rows[e.k].game_id_sk =
                           GameIdSk(tr.raw_games[i], GameIdMap(tr.df_game))}) = 1

\* =================================================== data quality: claims

\* Whether a sub-check result meets its rule: a ratio at or above the threshold
\* for completeness, no offending record for the other categories.
SubCheckMet(category, r) ==
    IF category = "completeness"
    THEN r.total_count > 0 /\ (r.total_count - r.count) * 100 >= Threshold * r.total_count
    ELSE r.count = 0

\* C16: when the handler has computed its verdict, every declared category has
\* a result, a category's flag is the AND of its sub-checks, a sub-check passes
\* iff it meets its rule, and overall_status is PASSED iff every sub-check of
\* every declared category passed, FAILED otherwise.
C16_VerdictIsConjunction ==
    dq.overall_status # "" =>
        /\ DOMAIN dq.checks = DQ_RULES[dq.table_name].categories
        /\ \A c \in DOMAIN dq.checks :
              /\ \A s \in DOMAIN dq.checks[c].results :
                    dq.checks[c].results[s].passed
                        <=> SubCheckMet(c, dq.checks[c].results[s])
              /\ dq.checks[c].passed
                    <=> \A s \in DOMAIN dq.checks[c].results : dq.checks[c].results[s].passed
        /\ dq.overall_status \in {"PASSED", "FAILED"}
        /\ dq.overall_status = "PASSED"
              <=> \A c \in DOMAIN dq.checks : \A s \in DOMAIN dq.checks[c].results :
                     dq.checks[c].results[s].passed

\* C16's case: a dim_game run returns with one consistency rule violated and
\* every other sub-check passed, and its verdict is FAILED.
C16_Witness ==
    /\ dq.status = "done"
    /\ dq.table_name = "dim_game"
    /\ dq.overall_status = "FAILED"
    /\ dq.checks["completeness"].passed
    /\ dq.checks["validity"].passed
    /\ dq.checks["uniqueness"].passed
    /\ dq.checks["consistency"].results["players"].passed
    /\ ~dq.checks["consistency"].results["playtime"].passed

\* C17 (as claimed): check_completeness returns, with passed for a field iff
\* (total - nulls) / total >= threshold, and the category flag the AND over the
\* fields; a table with no rows fails completeness for any threshold > 0.
C17_CompletenessVerdict ==
    cc.status # "called" =>
        /\ cc.status = "returned"
        /\ \A f \in RequiredFields :
              cc.results[f] <=> /\ cc.total > 0
                                /\ (cc.total - cc.nulls[f]) * 100 >= cc.threshold * cc.total
        /\ cc.passed <=> \A f \in RequiredFields : cc.results[f]
        /\ (cc.total = 0 /\ cc.threshold > 0) => ~cc.passed

\* The alerts published for the check of the running invocation.
RunAlerts == {i \in DOMAIN alerts : alerts[i].check_id = dq.check_id}

\* C18 (as claimed): a run with an alert topic whose stored verdict is FAILED
\* has published exactly one alert, which names the categories that failed; a
\* run whose verdict is PASSED has published none.
C18_FailedVerdictAlertsOnce ==
    (dq.status \in {"done", "raised"} /\ dq.check_id \in DOMAIN dqTable /\ dq.topic) =>
        /\ dq.overall_status = "FAILED" =>
              /\ Cardinality(RunAlerts) = 1
              /\ \A i \in RunAlerts :
                    alerts[i].failed_checks = {c \in DOMAIN dq.checks : ~dq.checks[c].passed}
        /\ dq.overall_status = "PASSED" => RunAlerts = {}

\* C19 (as claimed): every invocation, also one for a table without rules and
\* one in which a query ends FAILED or CANCELLED, has appended one record under
\* its new check_id when it ends, and no step changes or removes a record of an
\* earlier run.
C19_EveryRunAppendsOneRecord ==
    /\ [](dq.status \in {"done", "raised"} =>
             /\ dq.check_id \in DOMAIN dqTable
             /\ dqTable[dq.check_id].table_name = dq.table_name)
    /\ [][\A k \in DOMAIN dqTable :
             k \in DOMAIN dqTable' /\ dqTable'[k] = dqTable[k]]_vars

\* C20 (as claimed): a run with an alert topic that stored a FAILED verdict
\* returns 200 with the results after the alert was published; it does not raise.
C20_FailedVerdictReturnsNormally ==
    (dq.status \in {"done", "raised"} /\ dq.check_id \in DOMAIN dqTable
       /\ dq.topic /\ dq.overall_status = "FAILED") =>
        /\ dq.status = "done"
        /\ dq.statusCode = 200
        /\ dqTable[dq.check_id].overall_status = "FAILED"
        /\ RunAlerts # {}

\* =================================================== discovery: more claims

\* C22 (as claimed): a run goes on from a state-store read only with what the
\* store holds: the window starts at the stored watermark (1 when there is
\* none), and the refresh set is a page of the stale records; a read that
\* raises is not replaced by the default 1 or by the empty set.
C22_StoreFailurePropagates ==
    [][/\ (run.status = "hot" /\ run'.status = "scanned") =>
             run'.last_scanned_id = IF watermark.present THEN watermark.value ELSE 1
       /\ (run.status = "scanned" /\ run'.status = "queried"
             /\ run.limits.refresh_limit >= 1) =>
             \E P \in RefreshPages(run'.cutoff_date, run.limits.refresh_limit) :
                run'.games_to_refresh = {r.game_id : r \in P}]_vars

\* C26 (as claimed): no item with a COMPLETED record at or after the cutoff is
\* in the batch a run writes, also when the item has an older COMPLETED record,
\* is trending or lies in the scanned window.
C26_RecentNotRequeued ==
    run.status = "done" =>
        \A r \in RecentRecords(run.cutoff_date) : r.game_id \notin WrittenIds

\* C27 (as claimed), for the first range scan that stores a watermark: every
\* id of the remote catalog from the initial watermark 1 up to the stored
\* watermark was returned by the scan, whatever its sub-batch requests answered.
C27_RangeScanLosesNoItem ==
    [][(run.status = "hot" /\ run'.status = "scanned" /\ ~watermark.present) =>
          \A i \in Catalog :
              (1 <= i /\ i < watermark'.value) => i \in run'.new_games]_vars

\* =================================================== cleaner: more claims

\* The dim_game partitions in silver that hold the row.
PartitionsOf(row) ==
    {k \in DOMAIN silver : k.table = "dim_game" /\ \E j \in DOMAIN silver[k] : silver[k][j] = row}

\* C24 (as claimed): when the cleaner has returned, every row of the cleaned
\* batch is in exactly one dim_game partition: the one of its year, or
\* partition 0 when it has no year.
C24_EveryRowInOnePartition ==
    cl.status = "done" =>
        \A i \in DOMAIN cl.df :
            PartitionsOf(cl.df[i]) =
                {DimGameKey(IF cl.df[i].year.kind = "int" THEN cl.df[i].year.v ELSE 0)}

\* C28 (as claimed): no step of a cleaner invocation takes a game out of
\* dim_game: a game that has a row in a partition has one afterwards.
C28_CleanedGameStaysReadable ==
    [][\A k \in DOMAIN silver :
          k.table = "dim_game" =>
             \A j \in DOMAIN silver[k] :
                \E k2 \in DOMAIN silver' :
                   /\ k2.table = "dim_game"
                   /\ \E j2 \in DOMAIN silver'[k2] :
                         silver'[k2][j2].game_id = silver[k][j].game_id]_vars

\* C25 (as claimed): validate_and_clean_game_data returns for every batch; it
\* returns one row per record whose cleaning did not throw, whatever the shape
\* of the records that did; and a value that cannot be coerced to its column's
\* type is null in the row.
C25_ThrowingRecordIsSkipped ==
    vc.status \in {"cleaned", "raised"} =>
        /\ vc.status = "cleaned"
        /\ Len(vc.df) = Cardinality({i \in DOMAIN vc.raw_games : ~Throws(vc.raw_games[i])})
        /\ \A j \in DOMAIN vc.df : vc.df[j].year.kind \in {"int", "na"}

\* =================================================== across the stages
\* Some row of a lookup table in silver has the id.
InLookup(table, id) ==
    \E k \in DOMAIN silver :
        k.table = table /\ \E j \in DOMAIN silver[k] : silver[k][j].id = id

\* Some row of dim_game in silver has the surrogate key.
InDimGame(game_id) ==
    \E k \in DOMAIN silver :
        k.table = "dim_game" /\ \E j \in DOMAIN silver[k] : silver[k][j].game_id = game_id

\* C29 (as claimed): for one raw batch, every category_id (mechanic_id) of a bridge row the
\* transformer wrote is the id of some dim_category (dim_mechanic) row the
\* cleaner wrote, and every game_id of a bridge row is the game_id of some
\* dim_game row.
C29_ReferentialIntegrity ==
    \A k \in DOMAIN gold : \A j \in DOMAIN gold[k] :
        /\ k.table = "br_game_category" => InLookup("dim_category", gold[k][j].id)
        /\ k.table = "br_game_mechanic" => InLookup("dim_mechanic", gold[k][j].id)
        /\ k.table \in {"br_game_category", "br_game_mechanic"} =>
               InDimGame(gold[k][j].game_id)

\* =================================================== orchestrator: claims
\* C23 (as claimed): when the DAG selected the descriptor that the discovery
\* invocation of its run wrote, the payload it hands to the worker makes the
\* worker attempt every id of the descriptor's game_ids: the worker does not
\* answer 400, and it calls the remote for each of the ids.
C23_DescriptorDrivesExtraction ==
    (/\ dag.status = "extract_bgg_data" /\ ext.status = "done"
     /\ run.status = "done" /\ dag.xcom.s3_key = run.timestamp) =>
        LET game_ids == descriptors[dag.xcom.s3_key].game_ids IN
        game_ids # <<>> =>
            /\ ext.statusCode = 200
            /\ ext.game_ids = game_ids
            /\ Len(ext.calls) = Len(game_ids)

\* C30 (as claimed): the DAG selects a descriptor, and invokes the worker, only
\* after the discovery invocation of this run has written its descriptor, and
\* the descriptor it selects is that one.
C30_ExtractionUsesThisRunsDescriptor ==
    dag.status \in {"get_latest_game_id_file", "extract_bgg_data"} =>
        /\ run.status = "done"
        /\ dag.xcom.s3_key = run.timestamp

\* =================================================== the stages in a row: claims
\* The rows of br_game_category in gold.
CategoryBridgeRows ==
    {<<k, j>> \in (DOMAIN gold) \X (1..MaxBatch) :
        k.table = "br_game_category" /\ j \in DOMAIN gold[k]}

\* C21 (as claimed): for a batch of two items of which the first parses
\* (min_players 0, one category "Strategy") and the second has no item element,
\* the worker reports one success and one failure, the cleaner run on what the
\* worker saved has exactly one row, with min_players 1, and the transformer
\* run on that day's raw output and that dim_game writes exactly one category
\* bridge row, for that game's surrogate key.
C21_EndToEnd ==
    (ext.status = "done" /\ ext.calls = <<<<"ok">>, <<"no_item">>>>) =>
        /\ ext.games_processed = 1 /\ ext.games_failed = 1
        /\ cl.status # "none" =>
              Len(cl.df) = 1 /\ cl.df[1].min_players = Num(1)
        /\ tr.status = "done" =>
              /\ Cardinality(CategoryBridgeRows) = 1
              /\ \A e \in CategoryBridgeRows :
                    gold[e[1]][e[2]].game_id = SurrogateKey(Num(1))

====
